---- MODULE Spec2Model ----
(***************************************************************************)
(* A model of tickeye's data-acquisition core:                             *)
(*   - monitor/robust_market_fetcher.py  RobustMarketFetcher               *)
(*        (TTL cache, _retry_api_call, get_*_data_robust, batch_query)     *)
(*   - fund_analysis.py / main.py        get_all_fund_summaries            *)
(*   - monitor/rules.py                  RuleEngine.check_all_rules        *)
(*                                                                         *)
(* A DataFrame is a record [columns, rows]; Optional values are sequences  *)
(* of length 0 (None) or 1.  A column name is the sequence of its          *)
(* characters (one token per CJK character), so that Python's substring    *)
(* test `pattern in col` is computed, not assumed.                         *)
(***************************************************************************)
EXTENDS Integers, Sequences, FiniteSets, TLC

VARIABLES
    max_retries,      \* RobustMarketFetcher.max_retries (constructor argument)
    cache_duration,   \* RobustMarketFetcher.cache_duration (constructor argument)
    _cache,           \* RobustMarketFetcher._cache       : key -> DataFrame
    _cache_time,      \* RobustMarketFetcher._cache_time  : key -> time.time()
    now,              \* the wall clock, time.time()
    pc,               \* "idle", or "retry" inside _retry_api_call's loop
    frame,            \* the get_*_data_robust call in progress
    ret,              \* the last get_*_data_robust call that returned
    lastGood,         \* history: key -> payload written by the latest successful fetch
    client,           \* the fetch a direct caller uses: "fund" or "stock"
    watchlist,        \* the caller's watchlist, the argument of batch_query
    batch,            \* the batch_query call in progress or last finished
    index_file,       \* the aliases of indices_config.json, on disk
    config_loaded,    \* 'index_config' in fund_analysis._config_cache
    index_config,     \* fund_analysis._config_cache['index_config']['aliases']
    resolved,         \* history: the last is_valid_code / resolve_code call
    earlier,          \* history: one of the calls before it
    owned_funds,      \* get_owned_funds()[0], the configured codes
    fund_summaries,   \* get_all_fund_summaries' list
    upstream,         \* history: what the upstream did for each entry so far
    spc,              \* position of get_all_fund_summaries
    rules,            \* RuleEngine.rules
    check_data,       \* the argument `data` of check_all_rules
    all_alerts,       \* check_all_rules' list
    applied,          \* history: the indices of the rules whose check was called
    outcomes,         \* history: what each of those checks did (raised, alerts)
    rpc,              \* position of check_all_rules
    callers,          \* the threads that call one fetcher: thread -> its call
    changes,          \* the get_batch_changes call in progress or last finished
    table,            \* the DataFrame handed to an analysis or cleaning function
    analysis,         \* what that function returned
    find_result,      \* the last FieldHelper.find_column call: its patterns and result
    retry,            \* the retrying call in progress or last finished
    funds_config      \* the configuration file and what load_funds_config made of it

fvars == <<max_retries, cache_duration, _cache, _cache_time, now, pc, frame, ret,
           lastGood, client, watchlist, batch>>
svars == <<index_file, config_loaded, index_config, resolved, earlier,
           owned_funds, fund_summaries, upstream, spc>>
rvars == <<rules, check_data, all_alerts, applied, outcomes, rpc>>
ovars == <<callers, changes, table, analysis, find_result, retry, funds_config>>
vars  == <<fvars, svars, rvars, ovars>>

----------------------------------------------------------------------------
(* Bounds of the model *)

MaxRetries  == 1    \* max_retries is drawn from 0..MaxRetries
MaxDuration == 2    \* cache_duration is drawn from 0..MaxDuration
MaxTime     == 2    \* the clock stops at MaxTime
MaxRows     == 2    \* rows of an upstream DataFrame
MaxWatch    == 2    \* length of a watchlist
MaxFunds    == 3    \* length of the configured code list
MaxHistory  == 1    \* rows of one instrument's upstream history
MaxRules    == 3    \* rules registered with a RuleEngine

----------------------------------------------------------------------------
(* Values *)

None == <<>>
Some(v) == <<v>>

\* pandas' missing value in a code column
NaN == "NaN"

\* '基金代码' and '代码', one token per character
COL_FUND_CODE == <<"ji", "jin", "dai", "ma">>
COL_CODE      == <<"dai", "ma">>

\* Python's `pat in col` on strings: pat is a contiguous part of col
StrContains(pat, col) ==
    \E i \in 1..(Len(col) - Len(pat) + 1) : SubSeq(col, i, i + Len(pat) - 1) = pat

SeqsUpTo(S, n) == UNION {[1..k -> S] : k \in 0..n}

UpstreamCodes == {"000001", "270042", "12345"}

DataFrame(cols, rows) == [columns |-> cols, rows |-> rows]
IsEmpty(df) == df.rows = <<>>

\* the code column of ak.fund_open_fund_daily_em() and of ak.stock_zh_a_spot_em()
UpstreamColumn(kind) == IF kind = "fund" THEN COL_FUND_CODE ELSE COL_CODE

\* the DataFrames the upstream of a kind may return, the empty one among them
UpstreamFrames(kind) ==
    {DataFrame(<<UpstreamColumn(kind)>>, r) : r \in SeqsUpTo(UpstreamCodes, MaxRows)}

\* what one call of api_func() does: raise, return None, or return a DataFrame
Outcomes(kind) ==
    {[raised |-> TRUE, result |-> None], [raised |-> FALSE, result |-> None]}
        \cup {[raised |-> FALSE, result |-> Some(d)] : d \in UpstreamFrames(kind)}

RequestCodes == {"000001", "270042"}
CodeLists    == {<<>>, <<"000001">>, <<"270042">>, <<"000001", "270042">>}

FUND_KEY  == "fund_all_data"
STOCK_KEY == "stock_all_data"
CacheKey(kind) == IF kind = "fund" THEN FUND_KEY ELSE STOCK_KEY

----------------------------------------------------------------------------
(* RobustMarketFetcher: the cache *)
(* self._cache, self._cache_time and time.time() are passed as c, ct and t *)

\* a validity check that still accepts an entry whose age equals cache_duration
_is_cache_valid_inclusive(ct, t, key) ==
    IF key \notin DOMAIN ct THEN FALSE
    ELSE t - ct[key] <= cache_duration

_is_cache_valid(ct, t, key) ==
    IF key \notin DOMAIN ct THEN FALSE
    ELSE t - ct[key] < cache_duration

_get_cache(c, ct, t, key) ==
    IF _is_cache_valid(ct, t, key) THEN Some(c[key]) ELSE None

\* a _set_cache that refreshes the timestamp but keeps a payload already stored
_set_cache_keep_first(c, ct, t, key, data) ==
    [cache |-> [k \in DOMAIN c \cup {key} |-> IF k \in DOMAIN c THEN c[k] ELSE data],
     time  |-> [k \in DOMAIN ct \cup {key} |-> IF k = key THEN t ELSE ct[k]]]

\* a _set_cache that stores the payload and leaves the timestamps alone
_set_cache_payload_only(c, ct, t, key, data) ==
    [cache |-> [k \in DOMAIN c \cup {key} |-> IF k = key THEN data ELSE c[k]],
     time  |-> ct]

\* a _set_cache that stamps every entry of the cache with the time of the write
_set_cache_stamp_all(c, ct, t, key, data) ==
    [cache |-> [k \in DOMAIN c \cup {key} |-> IF k = key THEN data ELSE c[k]],
     time  |-> [k \in DOMAIN ct \cup {key} |-> t]]

\* the (_cache, _cache_time) pair after _set_cache(key, data)
_set_cache(c, ct, t, key, data) ==
    [cache |-> [k \in DOMAIN c \cup {key} |-> IF k = key THEN data ELSE c[k]],
     time  |-> [k \in DOMAIN ct \cup {key} |-> IF k = key THEN t ELSE ct[k]]]

----------------------------------------------------------------------------
(* RobustMarketFetcher: cleaning and filtering *)

HasColumn(df, col) == \E i \in 1..Len(df.columns) : df.columns[i] = col

\* a cleaning that drops the rows without a code and keeps codes of any length
CleanCodeColumn_dropna_only(df, col) ==
    IF HasColumn(df, col)
    THEN LET notna(c) == c # NaN
         IN DataFrame(df.columns, SelectSeq(df.rows, notna))
    ELSE df

\* df.dropna(subset=[col]) then df[df[col].str.len() == 6], when col is a column
CleanCodeColumn(df, col) ==
    IF HasColumn(df, col)
    THEN LET notna(c) == c # NaN
             len6(c)  == Len(c) = 6
         IN DataFrame(df.columns, SelectSeq(SelectSeq(df.rows, notna), len6))
    ELSE df

_clean_fund_data(df) == IF IsEmpty(df) THEN df ELSE CleanCodeColumn(df, COL_FUND_CODE)

_clean_stock_data(df) == IF IsEmpty(df) THEN df ELSE CleanCodeColumn(df, COL_CODE)

\* SimpleFundDataFetcher._clean_data (fetcher.py lines 32-42)
_clean_data(df) == IF IsEmpty(df) THEN df ELSE CleanCodeColumn(df, COL_FUND_CODE)

\* next((col for col in df.columns if any pattern in col), None): its index, or 0
FirstColumn(df, patterns) ==
    LET hits == {i \in 1..Len(df.columns) :
                    \E p \in patterns : StrContains(p, df.columns[i])}
    IN IF hits = {} THEN 0 ELSE CHOOSE i \in hits : \A j \in hits : i <= j

\* a filter that hands back every row
_filter_by_codes_all(df, codes, kind) == Some(df)

\* Optional[DataFrame]; df is a DataFrame (no caller passes None)
_filter_by_codes(df, codes, kind) ==
    IF IsEmpty(df) \/ codes = <<>> THEN Some(df)
    ELSE LET ci == IF kind = "fund" THEN FirstColumn(df, {COL_FUND_CODE, COL_CODE})
                                    ELSE FirstColumn(df, {COL_CODE})
             isin(c) == \E i \in 1..Len(codes) : codes[i] = c
             filtered == DataFrame(df.columns, SelectSeq(df.rows, isin))
         IN IF ci = 0 THEN None
            ELSE IF IsEmpty(filtered) THEN None ELSE Some(filtered)

\* `if codes: return self._filter_by_codes(df, codes, ...)` / `return df`
Answer(df, codes, kind) ==
    IF codes # <<>> THEN _filter_by_codes(df, codes, kind) ELSE Some(df)

Clean(df, kind) == IF kind = "fund" THEN _clean_fund_data(df) ELSE _clean_stock_data(df)

----------------------------------------------------------------------------
(* RobustMarketFetcher: one get_*_data_robust call *)

NoFrame == [kind |-> "none"]
NoRet   == [kind |-> "none"]

\* entry of get_fund_data_robust / get_stock_data_robust: the cache lookup.
\* had, ts and at record the entry's presence, its timestamp and the clock
\* at the lookup; verdict is what _is_cache_valid answered.
NewFrame(c, ct, t, kind, codes, by) ==
    [kind |-> kind, codes |-> codes, by |-> by, attempt |-> 0, calls |-> 0, got |-> FALSE,
     at |-> t,
     had |-> CacheKey(kind) \in DOMAIN ct,
     ts  |-> IF CacheKey(kind) \in DOMAIN ct THEN ct[CacheKey(kind)] ELSE 0,
     verdict |-> _is_cache_valid(ct, t, CacheKey(kind))]

Returned(f, value, hit) ==
    [kind |-> f.kind, codes |-> f.codes, by |-> f.by, calls |-> f.calls, got |-> f.got,
     at |-> f.at, had |-> f.had, ts |-> f.ts, verdict |-> f.verdict,
     hit |-> hit, value |-> value]

\* a retry loop with one iteration more
RetryRangeOffByOne(mr) == mr + 2

\* range(max_retries + 1): the number of iterations of the retry loop
RetryRange(mr) == mr + 1

\* `result is not None and not result.empty`
IsData(result) == result # None /\ ~IsEmpty(result[1])

----------------------------------------------------------------------------
(* RobustMarketFetcher.batch_query *)

Entries == {[code |-> "000001", type |-> "fund"], [code |-> "000001", type |-> "stock"],
            [code |-> "???", type |-> "index"]}
\* the watchlist of quick_full_test.py's batch test: two funds and two stocks
TestWatchlist == <<[code |-> "270042", type |-> "fund"], [code |-> "000001", type |-> "fund"],
                   [code |-> "000001", type |-> "stock"], [code |-> "270042", type |-> "stock"]>>
Watchlists == SeqsUpTo(Entries, MaxWatch) \cup {TestWatchlist}

NoBatch == [phase |-> "none"]

RECURSIVE Gcd(_, _)
Gcd(a, b) == IF b = 0 THEN a ELSE Gcd(b, a % b)

\* a float as the exact fraction num/den in lowest terms
Frac(n, d) == LET g == Gcd(n, d) IN [num |-> n \div g, den |-> d \div g]

\* [item["code"] for item in watchlist if item["type"] == type]
CodesOfType(wl, type) ==
    LET Pick(e) == e.type = type
        sel == SelectSeq(wl, Pick)
    IN [i \in 1..Len(sel) |-> sel[i].code]

\* a grouping that takes every entry's code as a fund code
fund_codes_any(wl) == [i \in 1..Len(wl) |-> wl[i].code]

fund_codes(wl) == CodesOfType(wl, "fund")
stock_codes(wl) == CodesOfType(wl, "stock")

\* a batch_query that counts only the entries it could classify
NewBatchDropping(wl) ==
    [phase |-> "start",
     fund_codes |-> fund_codes(wl), stock_codes |-> stock_codes(wl),
     fund_invocations |-> 0, stock_invocations |-> 0,
     funds |-> None, stocks |-> None,
     funds_ret |-> None, stocks_ret |-> None,
     summary |-> [total_requested |-> Len(fund_codes(wl)) + Len(stock_codes(wl)),
                  funds_requested |-> Len(fund_codes(wl)),
                  stocks_requested |-> Len(stock_codes(wl)),
                  funds_found |-> 0, stocks_found |-> 0,
                  success_rate |-> Frac(0, 1)]]

\* lines 268-288
NewBatch(wl) ==
    [phase |-> "start",
     fund_codes |-> fund_codes(wl), stock_codes |-> stock_codes(wl),
     fund_invocations |-> 0, stock_invocations |-> 0,
     funds |-> None, stocks |-> None,
     funds_ret |-> None, stocks_ret |-> None,   \* history: what the two fetches returned
     summary |-> [total_requested |-> Len(wl),
                  funds_requested |-> Len(fund_codes(wl)),
                  stocks_requested |-> Len(stock_codes(wl)),
                  funds_found |-> 0, stocks_found |-> 0,
                  success_rate |-> Frac(0, 1)]]

\* lines 294-299: funds_df is what get_fund_data_robust returned
WithFunds(b, funds_df) ==
    IF IsData(funds_df)
    THEN [b EXCEPT !.funds = funds_df, !.summary.funds_found = Len(funds_df[1].rows)]
    ELSE b

\* lines 305-310
WithStocks(b, stocks_df) ==
    IF IsData(stocks_df)
    THEN [b EXCEPT !.stocks = stocks_df, !.summary.stocks_found = Len(stocks_df[1].rows)]
    ELSE b

\* a success rate over the classified entries only
success_rate_classified(summary) ==
    LET total_found == summary.funds_found + summary.stocks_found
        total_requested == summary.funds_requested + summary.stocks_requested
    IN IF total_requested > 0 THEN Frac(total_found * 100, total_requested)
       ELSE Frac(0, 1)

\* lines 313-315
success_rate(summary) ==
    LET total_found == summary.funds_found + summary.stocks_found
        total_requested == summary.total_requested
    IN IF total_requested > 0 THEN Frac(total_found * 100, total_requested)
       ELSE Frac(0, 1)

\* lines 312-319
Finish(b) == [b EXCEPT !.summary.success_rate = success_rate(b.summary), !.phase = "done"]

\* lines 301-319, up to the return or to the first upstream call of the stock
\* fetch; c, ct, t: the cache and the clock; r: the last returned call
StockBranchBody(b, c, ct, t) ==
    IF b.stock_codes # <<>>
    THEN LET f  == NewFrame(c, ct, t, "stock", b.stock_codes, "batch")
             b1 == [b EXCEPT !.stock_invocations = @ + 1, !.phase = "stocks"]
             cached == _get_cache(c, ct, t, STOCK_KEY)
         IN IF cached # None
            THEN LET v == Answer(cached[1], b.stock_codes, "stock")
                 IN [pc |-> "idle", frame |-> NoFrame,
                     batch |-> Finish(WithStocks([b1 EXCEPT !.stocks_ret = v], v))]
            ELSE [pc |-> "retry", frame |-> f, batch |-> b1]
    ELSE [pc |-> "idle", frame |-> NoFrame, batch |-> Finish(b)]

\* a batch_query that gives up on the stocks once the funds came back absent
StockBranchAfterFunds(b, c, ct, t) ==
    IF b.fund_codes # <<>> /\ b.funds = None
    THEN [pc |-> "idle", frame |-> NoFrame, batch |-> Finish(b)]
    ELSE StockBranchBody(b, c, ct, t)

StockBranch(b, c, ct, t) == StockBranchBody(b, c, ct, t)

\* lines 290-319, up to the return or to the first upstream call
FundBranch(b, c, ct, t) ==
    IF b.fund_codes # <<>>
    THEN LET f  == NewFrame(c, ct, t, "fund", b.fund_codes, "batch")
             b1 == [b EXCEPT !.fund_invocations = @ + 1, !.phase = "funds"]
             cached == _get_cache(c, ct, t, FUND_KEY)
         IN IF cached # None
            THEN LET v == Answer(cached[1], b.fund_codes, "fund")
                 IN StockBranch(WithFunds([b1 EXCEPT !.funds_ret = v], v), c, ct, t)
            ELSE [pc |-> "retry", frame |-> f, batch |-> b1]
    ELSE StockBranch(b, c, ct, t)

\* where the caller of a returned get_*_data_robust call goes on: a direct
\* caller has the value (ret); batch_query resumes at line 294 or 305
AfterReturn(f, value, c, ct, t) ==
    IF f.by = "batch"
    THEN IF f.kind = "fund"
         THEN [ret |-> ret] @@ StockBranch(WithFunds([batch EXCEPT !.funds_ret = value], value), c, ct, t)
         ELSE [pc |-> "idle", frame |-> NoFrame, ret |-> ret,
               batch |-> Finish(WithStocks([batch EXCEPT !.stocks_ret = value], value))]
    ELSE [pc |-> "idle", frame |-> NoFrame, ret |-> Returned(f, value, FALSE), batch |-> batch]

----------------------------------------------------------------------------
(* Actions *)

\* the other components, not in use
SummariesIdle ==
    /\ index_file = <<>>
    /\ config_loaded = FALSE
    /\ index_config = <<>>
    /\ resolved = None
    /\ earlier = None
    /\ owned_funds = <<>>
    /\ fund_summaries = <<>>
    /\ upstream = <<>>
    /\ spc = "idle"

RulesIdle ==
    /\ rules = <<>>
    /\ check_data = None
    /\ all_alerts = <<>>
    /\ applied = <<>>
    /\ outcomes = <<>>
    /\ rpc = "idle"

NewIdle == find_result = None /\ retry = None /\ funds_config = None

OthersIdle ==
    /\ NewIdle
    /\ callers = <<>>
    /\ changes = None
    /\ table = None
    /\ analysis = None

FetcherIdle ==
    /\ max_retries = 0
    /\ cache_duration = 0
    /\ _cache = <<>>
    /\ _cache_time = <<>>
    /\ now = 0
    /\ pc = "idle"
    /\ frame = NoFrame
    /\ ret = NoRet
    /\ lastGood = <<>>
    /\ client = "none"
    /\ watchlist = <<>>
    /\ batch = NoBatch

Init ==
    /\ max_retries \in 0..MaxRetries
    /\ cache_duration \in 0..MaxDuration
    /\ _cache = <<>>
    /\ _cache_time = <<>>
    /\ now = 0
    /\ pc = "idle"
    /\ frame = NoFrame
    /\ ret = NoRet
    /\ lastGood = <<>>
    /\ client \in {"fund", "stock"}
    /\ watchlist = <<>>
    /\ batch = NoBatch
    /\ SummariesIdle
    /\ RulesIdle
    /\ OthersIdle

Running == batch.phase \in {"funds", "stocks"}

Tick ==
    /\ now < MaxTime
    /\ now' = now + 1
    /\ UNCHANGED <<max_retries, cache_duration, _cache, _cache_time, pc, frame, ret,
                   lastGood, client, watchlist, batch>>

\* a direct call of get_fund_data_robust(codes) / get_stock_data_robust(codes),
\* up to its return from the cache or to the first upstream call
get_data_robust(kind, codes) ==
    /\ pc = "idle" /\ ~Running
    /\ LET f == NewFrame(_cache, _cache_time, now, kind, codes, "direct")
           cached == _get_cache(_cache, _cache_time, now, CacheKey(kind))
       IN IF cached # None
          THEN /\ ret' = Returned(f, Answer(cached[1], codes, kind), TRUE)
               /\ UNCHANGED <<pc, frame>>
          ELSE /\ pc' = "retry"
               /\ frame' = f
               /\ ret' = NoRet
    /\ UNCHANGED <<max_retries, cache_duration, _cache, _cache_time, now, lastGood,
                   client, watchlist, batch>>

get_fund_data_robust ==
    client = "fund" /\ \E codes \in CodeLists : get_data_robust("fund", codes)

get_stock_data_robust ==
    client = "stock" /\ \E codes \in CodeLists : get_data_robust("stock", codes)

\* one iteration of _retry_api_call's loop with the upstream call doing o, and,
\* when the loop ends with it, the rest of get_*_data_robust (lines 142-155)
\* and of its caller up to the next upstream call
RetryStep(o) ==
    /\ pc = "retry"
    /\ LET f == [frame EXCEPT !.calls = @ + 1, !.attempt = @ + 1,
                                  !.got = ~o.raised /\ IsData(o.result)]
           key == CacheKey(f.kind)
       IN IF ~o.raised /\ IsData(o.result)
          THEN LET df == Clean(o.result[1], f.kind)
                   sc == _set_cache(_cache, _cache_time, now, key, df)
                   nx == AfterReturn(f, Answer(df, f.codes, f.kind), sc.cache, sc.time, now)
               IN /\ _cache' = sc.cache
                  /\ _cache_time' = sc.time
                  /\ lastGood' = [k \in DOMAIN lastGood \cup {key} |->
                                    IF k = key THEN df ELSE lastGood[k]]
                  /\ pc' = nx.pc /\ frame' = nx.frame /\ ret' = nx.ret /\ batch' = nx.batch
          ELSE IF f.attempt < RetryRange(max_retries)
          THEN /\ frame' = f
               /\ UNCHANGED <<pc, ret, batch, _cache, _cache_time, lastGood>>
          ELSE LET nx == AfterReturn(f, None, _cache, _cache_time, now)
               IN /\ pc' = nx.pc /\ frame' = nx.frame /\ ret' = nx.ret /\ batch' = nx.batch
                  /\ UNCHANGED <<_cache, _cache_time, lastGood>>
    /\ UNCHANGED <<max_retries, cache_duration, now, client, watchlist>>

_retry_api_call == \E o \in Outcomes(frame.kind) : RetryStep(o)

\* batch_query(watchlist), up to its return or to the first upstream call
batch_query ==
    /\ pc = "idle" /\ ~Running
    /\ LET nx == FundBranch(NewBatch(watchlist), _cache, _cache_time, now)
       IN /\ pc' = nx.pc /\ frame' = nx.frame /\ batch' = nx.batch
    /\ UNCHANGED <<max_retries, cache_duration, _cache, _cache_time, now, lastGood,
                   client, watchlist, ret>>

\* a client of the fetcher that calls one of get_fund_data_robust and
\* get_stock_data_robust directly, again and again
\* (enhanced_batch_analyzer.test_robust_features); batch_query uses both
Next ==
    \/ Tick /\ UNCHANGED <<svars, rvars, ovars>>
    \/ get_fund_data_robust /\ UNCHANGED <<svars, rvars, ovars>>
    \/ get_stock_data_robust /\ UNCHANGED <<svars, rvars, ovars>>
    \/ _retry_api_call /\ UNCHANGED <<svars, rvars, ovars>>

Spec == Init /\ [][Next]_vars

\* a client that holds one watchlist and calls batch_query with it, again and
\* again (enhanced_batch_analyzer.py, batch_market_analyzer.py)
InitBatch ==
    /\ max_retries = MaxRetries
    /\ cache_duration \in {0, MaxDuration}
    /\ _cache = <<>>
    /\ _cache_time = <<>>
    /\ now = 0
    /\ pc = "idle"
    /\ frame = NoFrame
    /\ ret = NoRet
    /\ lastGood = <<>>
    /\ client = "batch"
    /\ watchlist \in Watchlists
    /\ batch = NoBatch
    /\ SummariesIdle
    /\ RulesIdle
    /\ OthersIdle

\* the clock stands still here: with cache_duration = 0 every lookup misses,
\* with cache_duration > 0 every lookup after a successful fetch hits
NextBatch ==
    \/ _retry_api_call /\ UNCHANGED <<svars, rvars, ovars>>
    \/ batch_query /\ UNCHANGED <<svars, rvars, ovars>>

SpecBatch == InitBatch /\ [][NextBatch]_vars

----------------------------------------------------------------------------
(* fund_analysis.resolve_code; a str is the sequence of its characters *)

DIGITS == {"0", "1", "2", "3", "4", "5", "6", "7", "8", "9"}
LOWER  == <<"a", "b", "c", "d", "e", "f", "g", "h", "i", "j", "k", "l", "m",
            "n", "o", "p", "q", "r", "s", "t", "u", "v", "w", "x", "y", "z">>
UPPER  == <<"A", "B", "C", "D", "E", "F", "G", "H", "I", "J", "K", "L", "M",
            "N", "O", "P", "Q", "R", "S", "T", "U", "V", "W", "X", "Y", "Z">>
LETTERS == {LOWER[i] : i \in 1..26} \cup {UPPER[i] : i \in 1..26}
\* two letters without case, '沪' and '深'
CJK == {"hu", "shen"}
WHITESPACE == {" "}

\* str.upper(), one character
upper_char(ch) ==
    IF \E i \in 1..26 : LOWER[i] = ch THEN UPPER[CHOOSE i \in 1..26 : LOWER[i] = ch] ELSE ch

\* str.upper()
upper(str) == [i \in 1..Len(str) |-> upper_char(str[i])]

\* str.isdigit(), str.isalnum(): false for the empty string
isdigit(str) == str # <<>> /\ \A i \in 1..Len(str) : str[i] \in DIGITS
isalnum(str) == str # <<>> /\ \A i \in 1..Len(str) : str[i] \in DIGITS \cup LETTERS \cup CJK

\* str.strip()
strip(str) ==
    LET inside == {i \in 1..Len(str) : str[i] \notin WHITESPACE}
    IN IF inside = {} THEN <<>>
       ELSE SubSeq(str, CHOOSE i \in inside : \A j \in inside : i <= j,
                        CHOOSE i \in inside : \A j \in inside : i >= j)

\* str.startswith(prefix)
startswith(str, prefix) == Len(str) >= Len(prefix) /\ SubSeq(str, 1, Len(prefix)) = prefix

\* a replace that leaves the underscores in
keep_underscore(str) == str

\* str.replace('_', '')
replace_underscore(str) == LET keep(ch) == ch # "_" IN SelectSeq(str, keep)

MARKET_NONE == "None"

\* an alias result that takes every alias for a global index
AliasInfoGlobal(v) == Some([type |-> "index", market |-> "global", symbol |-> v.symbol,
                            alias_name |-> Some(v.name)])

\* the four results of resolve_code; {} is None
AliasInfo(v) == Some([type |-> "index", market |-> v.market, symbol |-> v.symbol,
                      alias_name |-> Some(v.name)])
FundInfo(c) == Some([type |-> "fund", market |-> MARKET_NONE, symbol |-> c,
                     alias_name |-> None])
IndexInfo(market, c) == Some([type |-> "index", market |-> market, symbol |-> c,
                              alias_name |-> None])

\* lines 122-157; aliases is get_index_config().get('aliases', {})
resolve_code(code, aliases) ==
    IF code = <<>> THEN None
    ELSE LET c  == strip(code)
             cu == upper(c)
         IN IF c = <<>> THEN None
            ELSE IF c \in DOMAIN aliases THEN AliasInfo(aliases[c])
            ELSE IF cu \in DOMAIN aliases THEN AliasInfo(aliases[cu])
            ELSE IF isdigit(c) THEN FundInfo(c)
            ELSE IF /\ Len(c) = 8
                    /\ (startswith(c, <<"s", "h">>) \/ startswith(c, <<"s", "z">>))
                    /\ isdigit(SubSeq(c, 3, Len(c)))
                 THEN IndexInfo("cn", c)
            ELSE IF cu = c /\ 2 <= Len(cu) /\ Len(cu) <= 10 /\ isalnum(replace_underscore(cu))
                 THEN IndexInfo("global", cu)
            ELSE None

\* the codes a configuration holds: a fund, a global index, a cn index, an
\* alias in lower case and an identifier no rule resolves
CODE_FUND   == <<"2", "7", "0", "0", "4", "2">>
CODE_GLOBAL == <<"S", "P", "X">>
CODE_CN     == <<"s", "h", "0", "0", "0", "0", "0", "1">>
CODE_ALIAS  == <<"h", "s", "i">>
CODE_BAD    == <<"?", "?", "?">>
ConfigCodes == {CODE_FUND, CODE_GLOBAL, CODE_CN, CODE_ALIAS, CODE_BAD}

\* the alias table of the configuration: one alias, HSI
AliasTable ==
    [k \in {<<"H", "S", "I">>} |->
        [symbol |-> <<"H", "S", "I">>, market |-> "global_hk", name |-> "HangSeng"]]

----------------------------------------------------------------------------
(* fund_analysis: get_index_config, resolve_code and is_valid_code, called *)
(* again and again while indices_config.json may change on disk           *)

\* a get_index_config that reads the file at every call
get_index_config_reload(loaded, cached, file) == file

\* lines 116-120: the aliases held by _config_cache after the call
get_index_config(loaded, cached, file) == IF loaded THEN cached ELSE file

\* lines 307-320
is_valid_code(code, aliases) == code # <<>> /\ resolve_code(code, aliases) # None

Alias(symbol, market, name) == [symbol |-> symbol, market |-> market, name |-> name]

\* the alias tables indices_config.json may hold: none; keys in upper case,
\* of digits and of the sh form; a key in mixed case; a key in both cases
AliasTables ==
    {<<>>,
     [k \in {<<"H", "S", "I">>, <<"0", "0", "0", "3", "0", "0">>,
             <<"s", "h", "0", "0", "0", "0", "1", "6">>} |->
        IF k = <<"H", "S", "I">> THEN Alias(<<"H", "S", "I">>, "global_hk", "HangSeng")
        ELSE IF k = <<"0", "0", "0", "3", "0", "0">>
             THEN Alias(<<"s", "h", "0", "0", "0", "3", "0", "0">>, "cn", "CSI300")
        ELSE Alias(<<"S", "S", "E", "5", "0">>, "global", "SSE50")],
     [k \in {<<"H", "s", "i">>} |-> Alias(<<"H", "S", "I">>, "global_hk", "HangSeng")],
     [k \in {<<"h", "s", "i">>, <<"H", "S", "I">>} |->
        IF k = <<"h", "s", "i">> THEN Alias(<<"H", "S", "I">>, "global_hk", "lower")
        ELSE Alias(<<"H", "S", "I">>, "global_us", "upper")]}

\* the identifiers a caller passes
Identifiers ==
    ConfigCodes \cup
    {<<>>, <<" ">>, <<" ", "S", "P", "X", " ">>, <<"H", "S", "I">>, <<"H", "s", "i">>,
     <<"0", "0", "0", "3", "0", "0">>, <<"s", "h", "0", "0", "0", "0", "1", "6">>,
     <<"S", "_", "P">>, <<"_", "_">>, <<"A">>, <<"A", "B">>, <<"s", "p", "x">>,
     <<"hu", "shen", "3", "0", "0">>,
     <<"A", "B", "C", "D", "E", "F", "G", "H", "I", "J">>,
     <<"A", "B", "C", "D", "E", "F", "G", "H", "I", "J", "K">>}

InitResolve ==
    /\ index_file \in AliasTables
    /\ config_loaded = FALSE
    /\ index_config = <<>>
    /\ resolved = None
    /\ earlier = None
    /\ owned_funds = <<>>
    /\ fund_summaries = <<>>
    /\ upstream = <<>>
    /\ spc = "idle"
    /\ FetcherIdle
    /\ RulesIdle
    /\ OthersIdle

\* indices_config.json is rewritten while the process runs
edit_index_file ==
    /\ \E t \in AliasTables : t # index_file /\ index_file' = t
    /\ UNCHANGED <<config_loaded, index_config, resolved, earlier,
                   owned_funds, fund_summaries, upstream, spc>>

\* one call is_valid_code(code): resolve_code returns before get_index_config
\* for an empty or blank code (lines 128-132)
call_is_valid_code ==
    /\ \E code \in Identifiers :
          LET early == code = <<>> \/ strip(code) = <<>>
              aliases == IF early THEN index_config
                         ELSE get_index_config(config_loaded, index_config, index_file)
          IN /\ config_loaded' = (config_loaded \/ ~early)
             /\ index_config' = aliases
             /\ resolved' = Some([code |-> code, used |-> aliases,
                                  info |-> resolve_code(code, aliases),
                                  valid |-> is_valid_code(code, aliases)])
    /\ earlier' \in {earlier, resolved}
    /\ UNCHANGED <<index_file, owned_funds, fund_summaries, upstream, spc>>

NextResolve ==
    \/ edit_index_file /\ UNCHANGED <<fvars, rvars, ovars>>
    \/ call_is_valid_code /\ UNCHANGED <<fvars, rvars, ovars>>

SpecResolve == InitResolve /\ [][NextResolve]_vars

----------------------------------------------------------------------------
(* fund_analysis.load_funds_config: funds_config.json, else funds_config.txt *)

\* an entry of the configuration: a string (a line of the TXT file, a string
\* of the JSON array) or a JSON object with 'code' and 'name'
Str(line) == [form |-> "str", line |-> line, code |-> <<>>, name |-> <<>>]
Dict(code, name) == [form |-> "dict", line |-> <<>>, code |-> code, name |-> name]

\* the most entries of a configuration file
MaxItems == 2

\* the entries a configuration holds
ConfigLines ==
    {CODE_FUND, CODE_BAD, <<" ", "S", "P", "X", " ">>, <<>>, <<"#", "c">>,
     CODE_FUND \o <<"|", "n">>, CODE_BAD \o <<"|", "n">>, <<"|", "n">>}
ConfigItems ==
    {Str(l) : l \in ConfigLines}
        \cup {Dict(CODE_FUND, <<"n">>), Dict(CODE_BAD, <<>>), Dict(<<" ">>, <<"n">>)}

\* what the loop body makes of one entry: nothing (skip), a code that is
\* checked with is_valid_code, or a code that is taken as it is.
\* json is whether the entry comes from the JSON file (lines 194-219) or from
\* the TXT file (lines 232-254)
ReadItem(item, json) ==
    LET line == strip(item.line)
        bars == {i \in 1..Len(line) : line[i] = "|"}
        bar  == CHOOSE i \in bars : \A j \in bars : i <= j
        code == IF item.form = "dict" THEN strip(item.code)
                ELSE IF bars = {} THEN line
                ELSE strip(SubSeq(line, 1, bar - 1))
    IN [skip    |-> item.form = "str" /\ (line = <<>> \/ startswith(line, <<"#">>)),
        code    |-> code,
        checked |-> json \/ bars = {}]

\* the variant of the loop body that checks every code
Appended_checked(item, json, aliases) ==
    LET r == ReadItem(item, json)
    IN ~r.skip /\ r.code # <<>> /\ is_valid_code(r.code, aliases)

\* whether the loop body appends the entry's code to owned_funds
Appended(item, json, aliases) ==
    LET r == ReadItem(item, json)
    IN /\ ~r.skip
       /\ r.code # <<>>
       /\ r.checked => is_valid_code(r.code, aliases)

\* load_funds_config's two results for the entries of one file: owned_funds,
\* and the numbers of the entries it printed a rejection for
LoadItems(items, json, aliases) ==
    LET numbers == [i \in 1..Len(items) |-> i]
        app(i) == Appended(items[i], json, aliases)
        rej(i) == ~ReadItem(items[i], json).skip /\ ~app(i)
        kept   == SelectSeq(numbers, app)
    IN [owned_funds |-> [k \in 1..Len(kept) |-> ReadItem(items[kept[k]], json).code],
        rejected    |-> SelectSeq(numbers, rej)]

\* the files on disk: funds_config.json is absent, unreadable (json.load
\* raises, line 222) or an array; the entries are the array's when there is
\* one and the lines of funds_config.txt otherwise
InitConfig ==
    /\ index_file = AliasTable
    /\ config_loaded = FALSE
    /\ index_config = <<>>
    /\ resolved = None
    /\ earlier = None
    /\ owned_funds = <<>>
    /\ fund_summaries = <<>>
    /\ upstream = <<>>
    /\ spc = "idle"
    /\ FetcherIdle
    /\ RulesIdle
    /\ find_result = None /\ retry = None
    /\ callers = <<>> /\ changes = None /\ table = None /\ analysis = None
    /\ \E json_file \in {"absent", "unreadable", "array"} :
       \E items \in SeqsUpTo(ConfigItems, MaxItems) :
          /\ json_file # "array" => \A i \in 1..Len(items) : items[i].form = "str"
          /\ funds_config = Some([json_file |-> json_file, items |-> items,
                                  loaded |-> FALSE, rejected |-> <<>>])

\* one call load_funds_config(); is_valid_code is only reached with a
\* non-empty code, so its resolve_code reads the index configuration
load_funds_config ==
    /\ funds_config # None
    /\ ~funds_config[1].loaded
    /\ LET json    == funds_config[1].json_file = "array"
           items   == funds_config[1].items
           aliases == get_index_config(config_loaded, index_config, index_file)
           reads   == \E i \in 1..Len(items) :
                         LET r == ReadItem(items[i], json)
                         IN ~r.skip /\ r.code # <<>> /\ r.checked
           res     == LoadItems(items, json, aliases)
       IN /\ owned_funds' = res.owned_funds
          /\ funds_config' = Some([funds_config[1] EXCEPT !.loaded = TRUE,
                                                          !.rejected = res.rejected])
          /\ config_loaded' = (config_loaded \/ reads)
          /\ index_config' = IF reads THEN aliases ELSE index_config
    /\ UNCHANGED <<index_file, resolved, earlier, fund_summaries, upstream, spc>>

NextConfig ==
    load_funds_config
        /\ UNCHANGED <<fvars, rvars, callers, changes, table, analysis, find_result, retry>>

SpecConfig == InitConfig /\ [][NextConfig]_vars

----------------------------------------------------------------------------
(* fund_analysis.get_fund_summary and main.get_all_fund_summaries *)

\* get_all_fund_summaries(days=1)
Days == 1

\* status '正常', and the status of the except branch with the message of
\* `raise Exception("无法获取基金数据")`
STATUS_OK     == "OK"
STATUS_FAILED == "analysis failed: no fund data"

\* what the upstream does for one instrument: raise, or return a history of
\* `rows` rows, with or without the required columns
UpstreamHistories ==
    {[raised |-> TRUE, rows |-> 0, columns |-> FALSE]}
        \cup {[raised |-> FALSE, rows |-> n, columns |-> TRUE] : n \in 0..MaxHistory}
        \cup {[raised |-> FALSE, rows |-> 1, columns |-> FALSE]}

Min(a, b) == IF a <= b THEN a ELSE b

\* lines 531-578: the number of rows of the returned DataFrame
get_specific_fund_data(fund_code, days, aliases, o) ==
    LET info == resolve_code(fund_code, aliases)
    IN IF info = None THEN 0
       ELSE IF o.raised THEN 0
       ELSE IF o.rows = 0 \/ ~o.columns THEN 0
       ELSE IF info[1].type = "index" /\ startswith(info[1].market, "global")
            THEN Min(1, days)
       ELSE Min(o.rows, days)

\* a summary that lets the exception of the empty result escape
get_fund_summary_uncaught(fund_code, days, aliases, o) ==
    LET fund_data == get_specific_fund_data(fund_code, days + 1, aliases, o)
    IN IF fund_data = 0
       THEN [raised |-> TRUE,
             summary |-> [fund_code |-> fund_code, status |-> STATUS_FAILED, rows |-> 0]]
       ELSE [raised |-> FALSE,
             summary |-> [fund_code |-> fund_code, status |-> STATUS_OK, rows |-> fund_data]]

\* lines 580-660: the returned dict, and whether the call raised instead
get_fund_summary(fund_code, days, aliases, o) ==
    LET fund_data == get_specific_fund_data(fund_code, days + 1, aliases, o)
    IN IF fund_data = 0
       THEN [raised |-> FALSE,
             summary |-> [fund_code |-> fund_code, status |-> STATUS_FAILED, rows |-> 0]]
       ELSE [raised |-> FALSE,
             summary |-> [fund_code |-> fund_code, status |-> STATUS_OK, rows |-> fund_data]]

InitSummaries ==
    /\ index_file = AliasTable
    /\ config_loaded = TRUE
    /\ index_config = AliasTable
    /\ resolved = None
    /\ earlier = None
    /\ owned_funds \in SeqsUpTo(ConfigCodes, MaxFunds)
    /\ fund_summaries = <<>>
    /\ upstream = <<>>
    /\ spc = "idle"
    /\ FetcherIdle
    /\ RulesIdle
    /\ OthersIdle

\* main.py lines 86-93: the call, up to the loop or to `return []`
get_all_fund_summaries ==
    /\ spc \in {"idle", "done", "raised"}
    /\ fund_summaries' = <<>>
    /\ upstream' = <<>>
    /\ spc' = IF owned_funds = <<>> THEN "done" ELSE "loop"
    /\ UNCHANGED <<index_file, config_loaded, index_config, resolved, earlier, owned_funds>>

\* main.py lines 94-99: one iteration of the loop, and the return after the last
SummaryStep(o) ==
    /\ spc = "loop"
    /\ LET fund_code == owned_funds[Len(fund_summaries) + 1]
           r == get_fund_summary(fund_code, Days, index_config, o)
       IN /\ upstream' = Append(upstream, o)
          /\ IF r.raised
             THEN /\ spc' = "raised"
                  /\ UNCHANGED fund_summaries
             ELSE /\ fund_summaries' = Append(fund_summaries, r.summary)
                  /\ spc' = IF Len(fund_summaries) + 1 = Len(owned_funds)
                            THEN "done" ELSE "loop"
    /\ UNCHANGED <<index_file, config_loaded, index_config, resolved, earlier, owned_funds>>

summary_loop == \E o \in UpstreamHistories : SummaryStep(o)

NextSummaries ==
    \/ get_all_fund_summaries /\ UNCHANGED <<fvars, rvars, ovars>>
    \/ summary_loop /\ UNCHANGED <<fvars, rvars, ovars>>

SpecSummaries == InitSummaries /\ [][NextSummaries]_vars

----------------------------------------------------------------------------
(* monitor/rules.py: RuleEngine *)

\* a Rule is its name and what its check does with a non-empty DataFrame:
\* raise, or return an alert for each of the first `alerts` rows
RuleNames == {"drop", "price"}
Rules == [name : RuleNames, raises : {FALSE}, alerts : 0..2]
            \cup [name : RuleNames, raises : {TRUE}, alerts : {0}]

RuleData == {None} \cup {Some(DataFrame(<<COL_FUND_CODE>>, r)) :
                            r \in SeqsUpTo(RequestCodes, MaxRows)}

----------------------------------------------------------------------------
(* monitor/rules.py: FieldHelper, PercentageDropRule and PriceThresholdRule.  *)
(* Here a row is the sequence of its cells, one per column; a cell is None    *)
(* (pandas' NaN) or Some(v), v a code, a name or the characters of a str or   *)
(* of a number's str().  A float is its number of hundredths.                 *)

MaxConfig == 2    \* rule_config entries of a configuration
MaxColumns  == 2    \* columns of a table handed to find_column
MaxPatterns == 2    \* patterns handed to find_column

\* the value of a str of digits
RECURSIVE DigitsValue(_)
DigitsValue(ds) ==
    IF ds = <<>> THEN 0
    ELSE 10 * DigitsValue(SubSeq(ds, 1, Len(ds) - 1))
            + ((CHOOSE d \in 0..9 : ToString(d) = ds[Len(ds)]))

\* an unsigned decimal with the digits ip before and fp after the point, in
\* hundredths; None when it is no number
Decimal(ip, fp) ==
    IF /\ ip # <<>> \/ fp # <<>>
       /\ \A i \in 1..Len(ip) : ip[i] \in DIGITS
       /\ \A i \in 1..Len(fp) : fp[i] \in DIGITS
       /\ Len(fp) <= 2
    THEN Some(100 * DigitsValue(ip)
                + (IF Len(fp) = 1 THEN 10 * DigitsValue(fp) ELSE DigitsValue(fp)))
    ELSE None

Unsigned(body) ==
    LET dots == {i \in 1..Len(body) : body[i] = "."}
    IN IF dots = {} THEN Decimal(body, <<>>)
       ELSE IF Cardinality(dots) > 1 THEN None
       ELSE Decimal(SubSeq(body, 1, (CHOOSE i \in dots : TRUE) - 1),
                    SubSeq(body, (CHOOSE i \in dots : TRUE) + 1, Len(body)))

\* float(str): None for ValueError.  Decimal notation with at most two
\* decimals (no exponent, inf or nan among the inputs).
float(str) ==
    LET s == strip(str)
    IN IF s = <<>> THEN None
       ELSE IF s[1] = "+" THEN Unsigned(Tail(s))
       ELSE IF s[1] = "-"
            THEN (IF Unsigned(Tail(s)) = None THEN None ELSE Some(0 - Unsigned(Tail(s))[1]))
       ELSE Unsigned(s)

\* lines 93-119
parse_percentage(value) ==
    IF value = None THEN 0
    ELSE LET notpct(ch) == ch # "%"
             str_value == SelectSeq(strip(value[1]), notpct)
         IN IF float(str_value) = None THEN 0 ELSE float(str_value)[1]

\* lines 40-66 from pattern k on: the index of the column found, 0 for None
RECURSIVE find_column_from(_, _, _)
find_column_from(df, patterns, k) ==
    IF k > Len(patterns) THEN 0
    ELSE LET exact == {i \in 1..Len(df.columns) : df.columns[i] = patterns[k]}
             fuzzy == {i \in 1..Len(df.columns) : StrContains(patterns[k], df.columns[i])}
         IN IF exact # {} THEN CHOOSE i \in exact : \A j \in exact : i <= j
            ELSE IF fuzzy # {} THEN CHOOSE i \in fuzzy : \A j \in fuzzy : i <= j
            ELSE find_column_from(df, patterns, k + 1)

\* a search in column order: the first column that contains any pattern
find_column_by_column(df, patterns) ==
    IF IsEmpty(df) THEN 0
    ELSE FirstColumn(df, {patterns[k] : k \in 1..Len(patterns)})

find_column(df, patterns) == IF IsEmpty(df) THEN 0 ELSE find_column_from(df, patterns, 1)

\* ['基金代码', 'fund_code', '代码']
get_fund_code_column(df) ==
    find_column(df, <<COL_FUND_CODE, <<"f", "u", "n", "d", "_", "c", "o", "d", "e">>, COL_CODE>>)

\* ['基金简称', '基金名称', 'fund_name', '简称', '名称']
get_fund_name_column(df) ==
    find_column(df, << <<"ji", "jin", "jian", "cheng">>, <<"ji", "jin", "ming", "cheng">>,
                       <<"f", "u", "n", "d", "_", "n", "a", "m", "e">>,
                       <<"jian", "cheng">>, <<"ming", "cheng">> >>)

\* ['单位净值', 'net_value', '净值']
get_net_value_column(df) ==
    find_column(df, << <<"dan", "wei", "jing", "zhi">>,
                       <<"n", "e", "t", "_", "v", "a", "l", "u", "e">>, <<"jing", "zhi">> >>)

\* ['日增长率', '增长率', '涨跌率', '涨幅', 'change_rate']
get_change_rate_column(df) ==
    find_column(df, << <<"ri", "zeng", "chang", "lv">>, <<"zeng", "chang", "lv">>,
                       <<"zhang", "die", "lv">>, <<"zhang", "fu">>,
                       <<"c", "h", "a", "n", "g", "e", "_", "r", "a", "t", "e">> >>)

\* a rule that lets the failed lookup of a column escape as an exception
MissingFieldsRaise == [raised |-> TRUE, alerts |-> <<>>]

\* lines 147-153 and 219-225: `return alerts` with nothing appended
MissingFields == [raised |-> FALSE, alerts |-> <<>>]

\* a comparison that leaves out the threshold itself
drop_triggered_strict(change_rate, threshold) == change_rate < 0 - threshold

\* a trigger that a threshold of 0 never fires
drop_triggered_positive(change_rate, threshold) ==
    threshold > 0 /\ change_rate <= 0 - threshold

\* line 172
drop_triggered(change_rate, threshold) == change_rate <= 0 - threshold

\* lines 136-188
PercentageDropRule_check(rule, df) ==
    LET code_col == get_fund_code_column(df)
        name_col == get_fund_name_column(df)
        rate_col == get_change_rate_column(df)
        isin(fund) == \E k \in 1..Len(rule.fund_codes) : fund[code_col] = Some(rule.fund_codes[k])
        filtered_data == IF rule.fund_codes # <<>> THEN SelectSeq(df.rows, isin) ELSE df.rows
        hit(fund) == drop_triggered(parse_percentage(fund[rate_col]), rule.threshold)
        triggered == SelectSeq(filtered_data, hit)
    IN IF IsEmpty(df) THEN [raised |-> FALSE, alerts |-> <<>>]
       ELSE IF code_col = 0 \/ name_col = 0 \/ rate_col = 0 THEN MissingFields
       ELSE [raised |-> FALSE,
             alerts |-> [i \in 1..Len(triggered) |->
                           [fund_code |-> triggered[i][code_col],
                            fund_name |-> triggered[i][name_col],
                            value     |-> Some(parse_percentage(triggered[i][rate_col])),
                            rule_name |-> rule.name]]]

\* comparisons that take in the threshold itself
price_triggered_inclusive(operator, current_value, threshold) ==
    \/ operator = "below" /\ current_value <= threshold
    \/ operator = "above" /\ current_value >= threshold

\* lines 238-244
price_triggered(operator, current_value, threshold) ==
    \/ operator = "below" /\ current_value < threshold
    \/ operator = "above" /\ current_value > threshold

\* lines 208-259; float(nan) is nan, which compares false with everything
PriceThresholdRule_check(rule, df) ==
    LET code_col  == get_fund_code_column(df)
        name_col  == get_fund_name_column(df)
        value_col == get_net_value_column(df)
        match(row) == row[code_col] = Some(rule.fund_code)
        fund_data == SelectSeq(df.rows, match)
        fund == fund_data[1]
        current_value == IF fund[value_col] = None THEN None ELSE float(fund[value_col][1])
    IN IF IsEmpty(df) THEN [raised |-> FALSE, alerts |-> <<>>]
       ELSE IF code_col = 0 \/ name_col = 0 \/ value_col = 0 THEN MissingFields
       ELSE IF fund_data = <<>> THEN [raised |-> FALSE, alerts |-> <<>>]
       ELSE IF current_value = None THEN [raised |-> FALSE, alerts |-> <<>>]
       ELSE IF price_triggered(rule.operator, current_value[1], rule.threshold)
            THEN [raised |-> FALSE,
                  alerts |-> <<[fund_code |-> fund[code_col], fund_name |-> fund[name_col],
                                value |-> current_value, rule_name |-> rule.name]>>]
       ELSE [raised |-> FALSE, alerts |-> <<>>]

\* rule.check(data): whether it raised, and the alerts it returned
check(rule, df) ==
    IF "raises" \in DOMAIN rule
    THEN IF rule.raises THEN [raised |-> TRUE, alerts |-> <<>>]
         ELSE [raised |-> FALSE,
               alerts |-> [i \in 1..Min(rule.alerts, Len(df.rows)) |->
                             [fund_code |-> df.rows[i], rule_name |-> rule.name]]]
    ELSE IF rule.type = "percentage_drop" THEN PercentageDropRule_check(rule, df)
    ELSE PriceThresholdRule_check(rule, df)

\* one iteration that ends the loop when the rule raised
RuleIterationAborting(rs, df, alerts, i) ==
    LET r == check(rs[i], df)
    IN IF r.raised THEN [all_alerts |-> alerts, next |-> Len(rs) + 1, outcome |-> r]
       ELSE [all_alerts |-> alerts \o r.alerts, next |-> i + 1, outcome |-> r]

\* lines 301-309: one iteration of the loop over self.rules
RuleIteration(rs, df, alerts, i) ==
    LET r == check(rs[i], df)
    IN IF r.raised THEN [all_alerts |-> alerts, next |-> i + 1, outcome |-> r]
       ELSE [all_alerts |-> alerts \o r.alerts, next |-> i + 1, outcome |-> r]

InitRules ==
    /\ rules = <<>>
    /\ check_data = None
    /\ all_alerts = <<>>
    /\ applied = <<>>
    /\ outcomes = <<>>
    /\ rpc = "idle"
    /\ FetcherIdle
    /\ SummariesIdle
    /\ OthersIdle

\* the result of the last check_all_rules call is the caller's, not the engine's
Forget ==
    /\ check_data' = None
    /\ all_alerts' = <<>>
    /\ applied' = <<>>
    /\ outcomes' = <<>>
    /\ rpc' = "idle"

\* lines 268-271
add_rule ==
    /\ rpc # "loop"
    /\ Len(rules) < MaxRules
    /\ \E rule \in Rules : rules' = Append(rules, rule)
    /\ Forget

\* lines 273-280
remove_rule ==
    /\ rpc # "loop"
    /\ \E rule_name \in RuleNames :
          LET keep(rule) == rule.name # rule_name IN rules' = SelectSeq(rules, keep)
    /\ Forget

\* lines 282-299: the call with the argument d, up to the loop or to `return []`
CheckAllRules(d) ==
    /\ rpc # "loop"
    /\ check_data' = d
    /\ rpc' = IF d = None \/ IsEmpty(d[1]) \/ rules = <<>> THEN "done" ELSE "loop"
    /\ all_alerts' = <<>>
    /\ applied' = <<>>
    /\ outcomes' = <<>>
    /\ UNCHANGED rules

check_all_rules == \E d \in RuleData : CheckAllRules(d)

\* lines 301-311: one iteration of the loop, and the return after the last
rule_loop ==
    /\ rpc = "loop"
    /\ LET i == Len(applied) + 1
           nx == RuleIteration(rules, check_data[1], all_alerts, i)
       IN /\ applied' = Append(applied, i)
          /\ outcomes' = Append(outcomes, nx.outcome)
          /\ all_alerts' = nx.all_alerts
          /\ rpc' = IF nx.next > Len(rules) THEN "done" ELSE "loop"
    /\ UNCHANGED <<rules, check_data>>

NextRules ==
    \/ add_rule /\ UNCHANGED <<fvars, svars, ovars>>
    \/ remove_rule /\ UNCHANGED <<fvars, svars, ovars>>
    \/ check_all_rules /\ UNCHANGED <<fvars, svars, ovars>>
    \/ rule_loop /\ UNCHANGED <<fvars, svars, ovars>>

SpecRules == InitRules /\ [][NextRules]_vars

----------------------------------------------------------------------------
(* monitor/rules.py: an engine of PercentageDropRule and PriceThresholdRule *)

\* the rows of a fund table: code, name, net value and daily change, the
\* last two as the upstream's text ('--' where it has no number)
AlertRows ==
    {[code |-> Some("A"), name |-> Some("nA"), value |-> Some(<<"1", ".", "5">>),
      change |-> Some(<<"-", "5", ".", "0", "0", "%">>)],
     [code |-> Some("B"), name |-> Some("nB"), value |-> None,
      change |-> Some(<<"1", ".", "2", "%">>)],
     [code |-> Some("X"), name |-> Some("nX"), value |-> Some(<<"1", ".", "5">>),
      change |-> Some(<<"-", "3">>)],
     [code |-> Some("X"), name |-> Some("nX"), value |-> Some(<<"-", "-">>),
      change |-> Some(<<"-", "-">>)],
     [code |-> Some("X"), name |-> Some("nX"), value |-> Some(<<"2", ".", "0">>),
      change |-> None],
     [code |-> Some("X"), name |-> Some("nX"), value |-> Some(<<"2", ".", "5">>),
      change |-> Some(<<"-", "3", ".", "5", " ", "%">>)]}

\* the columns of ak.fund_open_fund_daily_em() ('基金代码', '基金简称',
\* '<date>-单位净值', '日增长率'), the same without the net value, and those
\* of ak.stock_zh_a_spot_em() ('代码', '名称', '最新价', '涨跌幅'); each
\* column with the field of a row it holds
Layouts ==
    {<<[name |-> COL_FUND_CODE, field |-> "code"],
       [name |-> <<"ji", "jin", "jian", "cheng">>, field |-> "name"],
       [name |-> <<"2", "4", "-", "dan", "wei", "jing", "zhi">>, field |-> "value"],
       [name |-> <<"ri", "zeng", "chang", "lv">>, field |-> "change"]>>,
     <<[name |-> COL_FUND_CODE, field |-> "code"],
       [name |-> <<"ji", "jin", "jian", "cheng">>, field |-> "name"],
       [name |-> <<"ri", "zeng", "chang", "lv">>, field |-> "change"]>>,
     <<[name |-> COL_CODE, field |-> "code"],
       [name |-> <<"ming", "cheng">>, field |-> "name"],
       [name |-> <<"zui", "xin", "jia">>, field |-> "value"],
       [name |-> <<"zhang", "die", "fu">>, field |-> "change"]>>}

\* the DataFrame of the rows recs under a layout
Table(layout, recs) ==
    DataFrame([i \in 1..Len(layout) |-> layout[i].name],
              [r \in 1..Len(recs) |-> [i \in 1..Len(layout) |-> recs[r][layout[i].field]]])

AlertData == {None} \cup {Some(Table(l, recs)) : l \in Layouts, recs \in SeqsUpTo(AlertRows, MaxRows)}

\* the entries of config['rules']
RuleConfigs ==
    {[type |-> "percentage_drop", name |-> "D1", threshold |-> 300, fund_codes |-> <<>>],
     [type |-> "percentage_drop", name |-> "D2", threshold |-> 0, fund_codes |-> <<"B", "X">>],
     [type |-> "price_threshold", name |-> "P1", fund_code |-> "X", threshold |-> 200,
      operator |-> "below"],
     [type |-> "price_threshold", name |-> "P2", fund_code |-> "X", threshold |-> 200,
      operator |-> "above"],
     [type |-> "unknown", name |-> "U"]}

\* lines 340-373: the rules added to the new engine; a rule is its fields
RECURSIVE CreatedRules(_)
CreatedRules(rules_config) ==
    IF rules_config = <<>> THEN <<>>
    ELSE (IF Head(rules_config).type \in {"percentage_drop", "price_threshold"}
          THEN <<Head(rules_config)>> ELSE <<>>) \o CreatedRules(Tail(rules_config))

\* lines 325-376, called once as in lines 401-411
create_rules_from_config ==
    /\ rpc = "idle" /\ rules = <<>>
    /\ \E config \in SeqsUpTo(RuleConfigs, MaxConfig) : rules' = CreatedRules(config)
    /\ Forget

\* check_all_rules on a table of funds or stocks, called once as in line 426
check_all_rules_table == rpc = "idle" /\ \E d \in AlertData : CheckAllRules(d)

NextAlerts ==
    \/ create_rules_from_config /\ UNCHANGED <<fvars, svars, ovars>>
    \/ check_all_rules_table /\ UNCHANGED <<fvars, svars, ovars>>
    \/ rule_loop /\ UNCHANGED <<fvars, svars, ovars>>

SpecAlerts == InitRules /\ [][NextAlerts]_vars

----------------------------------------------------------------------------
(* The analysis functions: RobustMarketFetcher._analyze_funds and            *)
(* _analyze_stocks, MarketDataFetcher._analyze_dataframe with the count of   *)
(* analyze_changes.  fn names the function: "funds", "stocks", "dataframe".  *)

\* a classification that takes no change for a rise
classify_nonneg(change_val) ==
    IF change_val >= 0 THEN "rising" ELSE "falling"

\* `if change_val > 0 ... elif change_val < 0 ... else ...`
classify(change_val) ==
    IF change_val > 0 THEN "rising" ELSE IF change_val < 0 THEN "falling" ELSE "flat"

\* the counter one row adds to, from the cell of its change column
RowClass(fn, change) ==
    LET notpct(ch) == ch # "%"
        text == IF fn = "stocks" THEN change[1] ELSE SelectSeq(change[1], notpct)
    IN IF change = None THEN "flat"
       ELSE IF fn = "funds" /\ change[1] = <<>> THEN "flat"
       ELSE IF float(text) = None THEN "flat"
       ELSE classify(float(text)[1])

\* the change column the function looks for: its index, 0 when there is none
ChangeColumn(fn, df) ==
    IF fn = "funds"
    THEN FirstColumn(df, {<<"ri", "zeng", "chang", "lv">>, <<"zhang", "die", "fu">>})
    ELSE IF fn = "stocks"
    THEN (IF \E i \in 1..Len(df.columns) : df.columns[i] = <<"zhang", "die", "fu">>
          THEN CHOOSE i \in 1..Len(df.columns) : df.columns[i] = <<"zhang", "die", "fu">>
          ELSE 0)
    ELSE FirstColumn(df, {<<"zhang", "die", "fu">>, <<"zhang", "die">>, <<"bian", "hua">>,
                          <<"zeng", "chang", "lv">>})

\* the counters of the returned dict
Analyze(fn, df) ==
    LET col == ChangeColumn(fn, df)
        n(label) == IF col = 0 THEN 0
                    ELSE Cardinality({i \in 1..Len(df.rows) :
                                        RowClass(fn, df.rows[i][col]) = label})
    IN [by |-> fn, count |-> Len(df.rows),
        rising |-> n("rising"), falling |-> n("falling"), flat |-> n("flat")]

\* tables of a code and one more column: '日增长率', '涨跌幅' or '最新价'
AnalysisTables ==
    {DataFrame(cols, [i \in 1..Len(cells) |-> <<Some("000001"), cells[i]>>]) :
        cols \in {<<COL_FUND_CODE, <<"ri", "zeng", "chang", "lv">> >>,
                  <<COL_CODE, <<"zhang", "die", "fu">> >>,
                  <<COL_CODE, <<"zui", "xin", "jia">> >>},
        cells \in SeqsUpTo({None, Some(<<>>), Some(<<"-", "-">>),
                            Some(<<"-", "5", ".", "0", "0", "%">>), Some(<<"1", ".", "2", "%">>),
                            Some(<<"0", ".", "0", "0">>), Some(<<"-", "3">>)}, MaxRows)}

InitAnalysis ==
    /\ NewIdle
    /\ callers = <<>>
    /\ changes = None
    /\ table \in {Some(df) : df \in AnalysisTables}
    /\ analysis = None
    /\ FetcherIdle
    /\ SummariesIdle
    /\ RulesIdle

\* robust_market_fetcher.py lines 352-388
_analyze_funds ==
    analysis' = Some(Analyze("funds", table[1])) /\ UNCHANGED <<callers, changes, table, find_result, retry, funds_config>>

\* robust_market_fetcher.py lines 390-425
_analyze_stocks ==
    analysis' = Some(Analyze("stocks", table[1])) /\ UNCHANGED <<callers, changes, table, find_result, retry, funds_config>>

\* market_data_fetcher.py lines 262-318
_analyze_dataframe ==
    analysis' = Some(Analyze("dataframe", table[1])) /\ UNCHANGED <<callers, changes, table, find_result, retry, funds_config>>

NextAnalysis ==
    \/ _analyze_funds /\ UNCHANGED <<fvars, svars, rvars>>
    \/ _analyze_stocks /\ UNCHANGED <<fvars, svars, rvars>>
    \/ _analyze_dataframe /\ UNCHANGED <<fvars, svars, rvars>>

SpecAnalysis == InitAnalysis /\ [][NextAnalysis]_vars

----------------------------------------------------------------------------
(* One RobustMarketFetcher called from several threads.  The class holds no  *)
(* lock: a thread runs get_*_data_robust as in the single-caller model, and  *)
(* the steps of different threads interleave at the cache lookup, at each    *)
(* upstream call and between the two assignments of _set_cache.              *)

Threads == {1, 2}

Waiting == [tpc |-> "idle", kind |-> "none", attempt |-> 0]

\* what api_func() does for a thread: raise, return an empty DataFrame, or
\* return one of two one-row DataFrames
ThreadOutcomes(kind) ==
    {[raised |-> TRUE, result |-> None],
     [raised |-> FALSE, result |-> Some(DataFrame(<<UpstreamColumn(kind)>>, <<>>))],
     [raised |-> FALSE, result |-> Some(DataFrame(<<UpstreamColumn(kind)>>, <<"000001">>))],
     [raised |-> FALSE, result |-> Some(DataFrame(<<UpstreamColumn(kind)>>, <<"270042">>))]}

InitThreads ==
    /\ max_retries = MaxRetries
    /\ cache_duration \in {1, MaxDuration}
    /\ _cache = <<>>
    /\ _cache_time = <<>>
    /\ now = 0
    /\ pc = "idle"
    /\ frame = NoFrame
    /\ ret = NoRet
    /\ lastGood = <<>>
    /\ client = "threads"
    /\ watchlist = <<>>
    /\ batch = NoBatch
    /\ callers = [t \in Threads |-> Waiting]
    /\ NewIdle
    /\ changes = None
    /\ table = None
    /\ analysis = None
    /\ SummariesIdle
    /\ RulesIdle

\* lines 114-130 / 157-173: the cache lookup of thread t's call; a hit returns
\* at once, a miss enters _retry_api_call
thread_get_data_robust(t, kind) ==
    /\ callers[t].tpc = "idle"
    /\ _get_cache(_cache, _cache_time, now, CacheKey(kind)) = None
    /\ callers' = [callers EXCEPT ![t] = [tpc |-> "retry", kind |-> kind, attempt |-> 0]]
    /\ UNCHANGED <<_cache, _cache_time>>

\* lines 87-112 and 142-146: one upstream call of thread t doing o; when it
\* brings data, the cleaning and `self._cache[key] = data`
thread_api_func(t, o) ==
    /\ callers[t].tpc = "retry"
    /\ LET c == callers[t]
           key == CacheKey(c.kind)
       IN IF ~o.raised /\ IsData(o.result)
          THEN /\ _cache' = _set_cache(_cache, _cache_time, now, key,
                                       Clean(o.result[1], c.kind)).cache
               /\ callers' = [callers EXCEPT ![t].tpc = "stamp"]
               /\ UNCHANGED _cache_time
          ELSE IF c.attempt + 1 < RetryRange(max_retries)
          THEN /\ callers' = [callers EXCEPT ![t].attempt = @ + 1]
               /\ UNCHANGED <<_cache, _cache_time>>
          ELSE /\ callers' = [callers EXCEPT ![t] = Waiting]
               /\ UNCHANGED <<_cache, _cache_time>>

\* `self._cache_time[key] = time.time()` of thread t, and its return
thread_set_cache_time(t) ==
    /\ callers[t].tpc = "stamp"
    /\ LET key == CacheKey(callers[t].kind)
       IN _cache_time' = _set_cache(_cache, _cache_time, now, key, _cache[key]).time
    /\ callers' = [callers EXCEPT ![t] = Waiting]
    /\ UNCHANGED _cache

ThreadFrame ==
    UNCHANGED <<max_retries, cache_duration, now, pc, frame, ret, lastGood, client,
                watchlist, batch, changes, table, analysis, find_result, retry, funds_config,
                svars, rvars>>

NextThreads ==
    \/ Tick /\ UNCHANGED <<svars, rvars, ovars>>
    \/ \E t \in Threads, kind \in {"fund", "stock"} :
          thread_get_data_robust(t, kind) /\ ThreadFrame
    \/ \E t \in Threads : \E o \in ThreadOutcomes(callers[t].kind) :
          thread_api_func(t, o) /\ ThreadFrame
    \/ \E t \in Threads : thread_set_cache_time(t) /\ ThreadFrame

SpecThreads == InitThreads /\ [][NextThreads]_vars

----------------------------------------------------------------------------
(* MarketDataFetcher.get_batch_changes over an AKShareProvider, whose cache  *)
(* is _cache / _cache_time with the one key 'fund_realtime'                  *)

REALTIME_KEY == "fund_realtime"

\* AKShareProvider.get_fund_realtime_data(codes) with the upstream call, if
\* one is made, doing o: the returned value and the cache it leaves
get_fund_realtime_data(c, ct, t, codes, o) ==
    LET valid == _is_cache_valid(ct, t, REALTIME_KEY)
        wrote == ~valid /\ ~o.raised /\ IsData(o.result)
        c2    == IF wrote THEN [k \in DOMAIN c \cup {REALTIME_KEY} |->
                                   IF k = REALTIME_KEY THEN o.result[1] ELSE c[k]]
                 ELSE c
        ct2   == IF wrote THEN [k \in DOMAIN ct \cup {REALTIME_KEY} |->
                                   IF k = REALTIME_KEY THEN t ELSE ct[k]]
                 ELSE ct
        isin(code) == \E i \in 1..Len(codes) : codes[i] = code
        all_data == c2[REALTIME_KEY]
        filtered == DataFrame(all_data.columns, SelectSeq(all_data.rows, isin))
    IN [cache |-> c2, time |-> ct2, called |-> ~valid,
        value |-> IF ~valid /\ ~wrote THEN None
                  ELSE IF IsEmpty(all_data) THEN None
                  ELSE IF FirstColumn(all_data, {COL_FUND_CODE, COL_CODE}) = 0 THEN None
                  ELSE IF IsEmpty(filtered) THEN None ELSE Some(filtered)]

\* get_batch_changes after its fund branch: it returns when there is no stock
\* code, and stands before the first ak.stock_zh_a_spot_em() otherwise
AfterFunds(symbols, funds, fund_calls) ==
    [phase |-> IF stock_codes(symbols) = <<>> THEN "done" ELSE "stocks",
     fund_codes |-> fund_codes(symbols), stock_codes |-> stock_codes(symbols),
     i |-> 1, stock_data_list |-> <<>>,
     fund_calls |-> fund_calls, stock_calls |-> 0,
     funds |-> funds, stocks |-> None]

InitChanges ==
    /\ max_retries = 0
    /\ cache_duration = 60
    /\ _cache = <<>>
    /\ _cache_time = <<>>
    /\ now = 0
    /\ pc = "idle"
    /\ frame = NoFrame
    /\ ret = NoRet
    /\ lastGood = <<>>
    /\ client = "changes"
    /\ watchlist \in Watchlists
    /\ batch = NoBatch
    /\ callers = <<>>
    /\ changes = None
    /\ table = None
    /\ analysis = None
    /\ NewIdle
    /\ SummariesIdle
    /\ RulesIdle

\* get_batch_changes(symbols) through its fund branch (lines 209-220), the
\* upstream call of get_fund_realtime_data doing o
get_batch_changes(o) ==
    /\ IF changes = None THEN TRUE ELSE changes[1].phase = "done"
    /\ IF fund_codes(watchlist) = <<>>
       THEN /\ changes' = Some(AfterFunds(watchlist, None, 0))
            /\ UNCHANGED <<_cache, _cache_time>>
       ELSE LET r == get_fund_realtime_data(_cache, _cache_time, now,
                                            fund_codes(watchlist), o)
            IN /\ changes' = Some(AfterFunds(watchlist, r.value, IF r.called THEN 1 ELSE 0))
               /\ _cache' = r.cache
               /\ _cache_time' = r.time
    /\ UNCHANGED <<max_retries, cache_duration, now, pc, frame, ret, lastGood, client,
                   watchlist, batch, callers, table, analysis, find_result, retry,
                   funds_config>>

\* one iteration of get_stock_realtime_data's `for code in codes` (lines
\* 118-129), ak.stock_zh_a_spot_em() doing o, and after the last one the
\* return of get_stock_realtime_data and of get_batch_changes
get_stock_realtime_data(o) ==
    /\ changes # None /\ changes[1].phase = "stocks"
    /\ LET c == changes[1]
           code == c.stock_codes[c.i]
           is_code(row) == row = code
           stock_row == IF ~o.raised /\ IsData(o.result)
                        THEN SelectSeq(o.result[1].rows, is_code) ELSE <<>>
           list == c.stock_data_list \o stock_row
           last == c.i = Len(c.stock_codes)
           \* `if stock_data_list: return pd.concat(...)` / `return None`
           result == IF list = <<>> THEN None ELSE Some(DataFrame(<<COL_CODE>>, list))
       IN changes' = Some([c EXCEPT !.i = @ + 1,
                                    !.stock_data_list = list,
                                    !.stock_calls = @ + 1,
                                    !.phase = IF last THEN "done" ELSE "stocks",
                                    !.stocks = IF last THEN result ELSE None])
    /\ UNCHANGED <<fvars, callers, table, analysis, find_result, retry, funds_config>>

NextChanges ==
    \/ \E o \in Outcomes("fund") : get_batch_changes(o) /\ UNCHANGED <<svars, rvars>>
    \/ \E o \in Outcomes("stock") : get_stock_realtime_data(o) /\ UNCHANGED <<svars, rvars>>

SpecChanges == InitChanges /\ [][NextChanges]_vars

----------------------------------------------------------------------------
(* The two retry implementations with their sleeps: the decorator            *)
(* fund_analysis.retry_api_call around a function, get_global_index_data     *)
(* among them, and RobustMarketFetcher._retry_api_call.  An upstream call    *)
(* returns data, returns an empty result, raises an error whose message      *)
(* holds "Connection", or raises another error.                              *)

Events == {"data", "empty", "ConnectionError", "KeyError"}

RECURSIVE Pow(_, _)
Pow(b, n) == IF n = 0 THEN 1 ELSE b * Pow(b, n - 1)

\* a loop of the decorator with one iteration more
wrapper_range_inclusive(m) == m + 1

\* range(max_retries) of retry_api_call.wrapper
wrapper_range(m) == m

\* a connection-level delay taken only while an attempt remains
connection_sleep_between(e, attempt, m) == e = "ConnectionError" /\ attempt < m

\* `if "Connection" in str(e) or "IncompleteRead" in str(e)` of _retry_api_call,
\* in iteration attempt of range(m + 1)
connection_sleep(e, attempt, m) == e = "ConnectionError"

\* what the wrapped function does when its upstream call does e:
\* get_global_index_data catches every Exception itself and returns {};
\* "func" is a function that lets the exception of its upstream call through
Call(func, e, n) ==
    IF e \in {"data", "empty"} THEN [kind |-> "result", what |-> e, call |-> n]
    ELSE IF func = "get_global_index_data" THEN [kind |-> "result", what |-> "empty", call |-> n]
    ELSE [kind |-> "error", what |-> e, call |-> n]

NewRetry(impl, func, m, d, b) ==
    [impl |-> impl, func |-> func, max_retries |-> m, delay |-> d, backoff_factor |-> b,
     attempt |-> 0, events |-> <<>>, slept |-> <<>>, status |-> "running",
     value |-> [kind |-> "none", what |-> "none", call |-> 0]]

\* @retry_api_call() on get_global_index_data takes the defaults 3, 1.0, 2.0
InitRetry ==
    /\ retry \in {Some(NewRetry("retry_api_call", "get_global_index_data", 3, 1, 2))}
            \cup {Some(NewRetry("retry_api_call", "func", m, d, b)) :
                     m \in 0..(MaxRetries + 2), d \in {1, 2}, b \in {2, 3}}
            \cup {Some(NewRetry("_retry_api_call", "api_func", m, 0, 0)) : m \in 0..MaxRetries}
    /\ find_result = None
    /\ funds_config = None
    /\ callers = <<>>
    /\ changes = None
    /\ table = None
    /\ analysis = None
    /\ FetcherIdle
    /\ SummariesIdle
    /\ RulesIdle

\* one iteration of wrapper's loop (fund_analysis.py lines 52-62) with the
\* upstream call doing e, and line 63 when the loop ends; with max_retries = 0
\* the loop is empty and `raise last_exception` raises a TypeError
wrapper(e) ==
    /\ retry # None /\ retry[1].impl = "retry_api_call" /\ retry[1].status = "running"
    /\ LET r == retry[1]
           n == Len(r.events) + 1
           res == Call(r.func, e, n)
           wait_time == r.delay * Pow(r.backoff_factor, r.attempt)
           sleeps == r.attempt < r.max_retries - 1
       IN IF r.attempt >= wrapper_range(r.max_retries)
          THEN retry' = Some([r EXCEPT !.status = "raised",
                                       !.value = [kind |-> "error", what |-> "TypeError",
                                                  call |-> 0]])
          ELSE IF res.kind = "result"
          THEN retry' = Some([r EXCEPT !.events = Append(@, e), !.status = "returned",
                                       !.value = res])
          ELSE retry' = Some([r EXCEPT
                   !.events = Append(@, e),
                   !.attempt = @ + 1,
                   !.slept = IF sleeps
                             THEN Append(@, [after |-> n, why |-> "backoff", wait |-> wait_time])
                             ELSE @,
                   !.status = IF r.attempt + 1 >= wrapper_range(r.max_retries)
                              THEN "raised" ELSE "running",
                   !.value = IF r.attempt + 1 >= wrapper_range(r.max_retries)
                             THEN res ELSE @])
    /\ UNCHANGED <<callers, changes, table, analysis, find_result, funds_config>>

\* one iteration of _retry_api_call's loop (robust_market_fetcher.py lines
\* 87-109) with api_func() doing e, and line 112 when the loop ends; the
\* lengths of its sleeps are random and left out (wait is 0)
_retry_api_call_sleeps(e) ==
    /\ retry # None /\ retry[1].impl = "_retry_api_call" /\ retry[1].status = "running"
    /\ LET r == retry[1]
           n == Len(r.events) + 1
           before == IF r.attempt > 0
                     THEN <<[after |-> n - 1, why |-> "backoff", wait |-> 0]>> ELSE <<>>
           after == IF connection_sleep(e, r.attempt, r.max_retries)
                    THEN <<[after |-> n, why |-> "connection", wait |-> 0]>> ELSE <<>>
           last == r.attempt + 1 >= RetryRange(r.max_retries)
       IN IF e = "data"
          THEN retry' = Some([r EXCEPT !.events = Append(@, e), !.slept = @ \o before,
                                       !.status = "returned",
                                       !.value = [kind |-> "result", what |-> e, call |-> n]])
          ELSE retry' = Some([r EXCEPT
                   !.events = Append(@, e),
                   !.attempt = @ + 1,
                   !.slept = @ \o before \o after,
                   !.status = IF last THEN "returned" ELSE "running",
                   !.value = IF last THEN [kind |-> "result", what |-> "None", call |-> 0]
                             ELSE @])
    /\ UNCHANGED <<callers, changes, table, analysis, find_result, funds_config>>

NextRetry ==
    \/ \E e \in Events : wrapper(e) /\ UNCHANGED <<fvars, svars, rvars>>
    \/ \E e \in Events : _retry_api_call_sleeps(e) /\ UNCHANGED <<fvars, svars, rvars>>

SpecRetry == InitRetry /\ [][NextRetry]_vars

----------------------------------------------------------------------------
(* FieldHelper.find_column on any column list and any pattern list *)

InitFind ==
    \* columns named '代码', '基金代码', '名称'; no row, or one row
    /\ \E cols \in SeqsUpTo({COL_CODE, COL_FUND_CODE, <<"ming", "cheng">>}, MaxColumns) :
          table \in {Some(DataFrame(cols, <<>>)),
                     Some(DataFrame(cols, <<[i \in 1..Len(cols) |-> None]>>))}
    /\ find_result = None
    /\ retry = None
    /\ funds_config = None
    /\ callers = <<>>
    /\ changes = None
    /\ analysis = None
    /\ FetcherIdle
    /\ SummariesIdle
    /\ RulesIdle

\* FieldHelper.find_column(df, patterns): the column name returned, or None
FieldHelper_find_column ==
    \* patterns '代码', '基金代码', '金', 'x'
    /\ \E patterns \in SeqsUpTo({COL_CODE, COL_FUND_CODE, <<"jin">>, <<"x">>}, MaxPatterns) :
          LET i == find_column(table[1], patterns)
          IN find_result' = Some([patterns |-> patterns,
                                  column |-> IF i = 0 THEN None
                                             ELSE Some(table[1].columns[i])])
    /\ UNCHANGED <<callers, changes, table, analysis, retry, funds_config>>

NextFind == FieldHelper_find_column /\ UNCHANGED <<fvars, svars, rvars>>

SpecFind == InitFind /\ [][NextFind]_vars

----------------------------------------------------------------------------
(* The cleaning functions on any upstream table of one code column, codes    *)
(* missing (NaN), too short or repeated among them                           *)

InitClean ==
    /\ table \in {Some(DataFrame(<<col>>, rows)) :
                     col \in {COL_FUND_CODE, COL_CODE},
                     rows \in SeqsUpTo(UpstreamCodes \cup {NaN}, MaxRows)}
    /\ analysis = None
    /\ NewIdle
    /\ callers = <<>>
    /\ changes = None
    /\ FetcherIdle
    /\ SummariesIdle
    /\ RulesIdle

\* one of _clean_fund_data, _clean_stock_data, _clean_data applied to the table
clean_data ==
    /\ \E fn \in {"_clean_fund_data", "_clean_stock_data", "_clean_data"} :
          analysis' = Some([by |-> fn,
                            df |-> IF fn = "_clean_fund_data" THEN _clean_fund_data(table[1])
                                   ELSE IF fn = "_clean_stock_data"
                                   THEN _clean_stock_data(table[1])
                                   ELSE _clean_data(table[1])])
    /\ UNCHANGED <<callers, changes, table, find_result, retry, funds_config>>

NextClean == clean_data /\ UNCHANGED <<fvars, svars, rvars>>

SpecClean == InitClean /\ [][NextClean]_vars

----------------------------------------------------------------------------
(* Properties of the fetcher under Spec *)

\* a direct get_*_data_robust call has returned
HasReturned == ret.kind # "none"

\* the entry's age at the lookup of the returned call
Age(r) == r.at - r.ts

\* C1: when a refresh fails (every attempt raises or returns nothing usable)
\* and an earlier successful fetch left a cache entry for the key, even an
\* expired one, the call answers from the cached payload, not with None.
StaleFallback ==
    (HasReturned /\ ~ret.hit /\ ~ret.got /\ ret.had)
        => ret.value = Answer(_cache[CacheKey(ret.kind)], ret.codes, ret.kind)

\* C2 as stated: one _retry_api_call never calls the upstream more than
\* max_retries times.
RetryBoundMaxRetries ==
    /\ pc = "retry" => frame.calls <= max_retries
    /\ HasReturned => ret.calls <= max_retries

\* C2: one _retry_api_call calls the upstream at most max_retries + 1 times
\* (one attempt and max_retries retries), and makes no call after a call that
\* returned a non-empty result: the loop is only ever about to call again with
\* fewer than max_retries + 1 calls made and none of them successful.
RetryBound ==
    /\ pc = "retry" => (frame.calls <= max_retries /\ ~frame.got)
    /\ HasReturned => ret.calls <= max_retries + 1
    /\ (HasReturned /\ ~ret.hit) => ret.calls >= 1
    /\ (HasReturned /\ ~ret.hit /\ ~ret.got) => ret.calls = max_retries + 1

\* C2 witness: a call that used the whole budget of max_retries + 1 calls
RetryBoundWitness ==
    HasReturned /\ ~ret.hit /\ max_retries >= 1 /\ ret.calls = max_retries + 1

CacheHit ==
    (HasReturned /\ ret.had /\ Age(ret) < cache_duration)
        => /\ ret.hit
           /\ ret.calls = 0
           /\ CacheKey(ret.kind) \in DOMAIN lastGood
           /\ ret.value = Answer(lastGood[CacheKey(ret.kind)], ret.codes, ret.kind)

\* C4 witness: a hit on an entry of age 1, filtered down to fewer rows
CacheHitWitness ==
    /\ HasReturned /\ ret.hit /\ ret.calls = 0 /\ Age(ret) = 1
    /\ ret.codes # <<>> /\ ret.value # None
    /\ Len(ret.value[1].rows) < Len(lastGood[CacheKey(ret.kind)].rows)

\* a key's timestamp, once written, stays and never moves back
TimestampsKept ==
    \A key \in DOMAIN _cache_time :
        key \in DOMAIN _cache_time' /\ _cache_time'[key] >= _cache_time[key]

\* the rows of a payload carry six-character codes only
CleanPayload(df) ==
    \A i \in 1..Len(df.rows) : df.rows[i] # NaN /\ Len(df.rows[i]) = 6

----------------------------------------------------------------------------
(* Properties of batch_query under SpecBatch *)

HasType(wl, type) == \E i \in 1..Len(wl) : wl[i].type = type

Done == batch.phase = "done"

\* C5: batch_query invokes the fund fetcher exactly once when the watchlist
\* has a fund entry and never when it has none, and likewise the stock
\* fetcher; the number of invocations does not grow with the entries.
OneInvocationPerKind ==
    /\ batch.phase # "none" => (batch.fund_invocations <= 1 /\ batch.stock_invocations <= 1)
    /\ batch.phase # "none" => (~HasType(watchlist, "fund") => batch.fund_invocations = 0)
    /\ batch.phase # "none" => (~HasType(watchlist, "stock") => batch.stock_invocations = 0)
    /\ Done => batch.fund_invocations = (IF HasType(watchlist, "fund") THEN 1 ELSE 0)
    /\ Done => batch.stock_invocations = (IF HasType(watchlist, "stock") THEN 1 ELSE 0)

\* C5 witness: several entries of each kind, one invocation of each fetcher
OneInvocationPerKindWitness ==
    /\ Done /\ Len(batch.fund_codes) >= 2 /\ Len(batch.stock_codes) >= 2
    /\ batch.fund_invocations = 1 /\ batch.stock_invocations = 1

\* C6: success_rate = (funds_found + stocks_found) / total_requested * 100
\* with total_requested the watchlist's length, and 0 for the empty watchlist;
\* two funds and two stocks requested with one fund and two stocks found give 75.
SuccessRate ==
    Done =>
        LET s == batch.summary
        IN /\ s.total_requested = Len(watchlist)
           /\ Len(watchlist) = 0 => s.success_rate = [num |-> 0, den |-> 1]
           /\ Len(watchlist) > 0 =>
                s.success_rate.num * Len(watchlist)
                    = (s.funds_found + s.stocks_found) * 100 * s.success_rate.den
           /\ (watchlist = TestWatchlist /\ s.funds_found = 1 /\ s.stocks_found = 2)
                => /\ s.funds_requested = 2 /\ s.stocks_requested = 2
                   /\ s.success_rate = [num |-> 75, den |-> 1]

\* C6 witness: the example, one of two funds and both stocks found
SuccessRateWitness ==
    /\ Done /\ watchlist = TestWatchlist
    /\ batch.summary.funds_found = 1 /\ batch.summary.stocks_found = 2

\* C7: an entry that is neither fund nor stock is counted in total_requested
\* and in no found count; a watchlist of such entries gives funds_found =
\* stocks_found = 0 and success_rate 0 with no fetcher invoked and no upstream
\* call, and batch_query returns at once.
Unclassified(wl) == \A i \in 1..Len(wl) : wl[i].type \notin {"fund", "stock"}

UnclassifiableEntry ==
    batch.phase # "none" =>
        LET s == batch.summary
            others == {i \in 1..Len(watchlist) : watchlist[i].type \notin {"fund", "stock"}}
        IN /\ s.total_requested = Len(watchlist)
           /\ s.funds_requested + s.stocks_requested + Cardinality(others) = s.total_requested
           /\ Unclassified(watchlist) =>
                /\ Done /\ pc = "idle" /\ frame = NoFrame
                /\ batch.fund_invocations = 0 /\ batch.stock_invocations = 0
                /\ batch.funds = None /\ batch.stocks = None
                /\ s.funds_found = 0 /\ s.stocks_found = 0
                /\ s.success_rate = [num |-> 0, den |-> 1]

\* C7 witness: the watchlist of one unclassifiable entry, queried
UnclassifiableEntryWitness ==
    Done /\ watchlist = <<[code |-> "???", type |-> "index"]>>

\* C8: when the fetch of one kind fails, the other kind is still fetched in
\* the same batch and its rows and found count are what its own fetch
\* returned; the failed kind is absent with found count 0.
KindIndependence ==
    Done =>
        LET s == batch.summary
        IN /\ batch.stock_codes # <<>> =>
                /\ batch.stock_invocations = 1
                /\ batch.stocks = (IF IsData(batch.stocks_ret) THEN batch.stocks_ret ELSE None)
                /\ s.stocks_found = (IF IsData(batch.stocks_ret)
                                     THEN Len(batch.stocks_ret[1].rows) ELSE 0)
                /\ batch.stocks_ret # None =>
                     batch.stocks_ret = Answer(lastGood[STOCK_KEY], batch.stock_codes, "stock")
           /\ batch.fund_codes # <<>> =>
                /\ batch.fund_invocations = 1
                /\ batch.funds = (IF IsData(batch.funds_ret) THEN batch.funds_ret ELSE None)
                /\ s.funds_found = (IF IsData(batch.funds_ret)
                                    THEN Len(batch.funds_ret[1].rows) ELSE 0)
                /\ batch.funds_ret # None =>
                     batch.funds_ret = Answer(lastGood[FUND_KEY], batch.fund_codes, "fund")

\* C8 witness: the funds failed, the stocks were fetched and found
KindIndependenceWitness ==
    /\ Done /\ batch.fund_codes # <<>> /\ batch.funds_ret = None
    /\ batch.funds = None /\ batch.summary.funds_found = 0
    /\ batch.stocks # None /\ batch.summary.stocks_found >= 1

----------------------------------------------------------------------------
(* Properties of get_all_fund_summaries under SpecSummaries *)

\* entry i fails: its code is unresolvable, or its upstream raises or
\* returns no data
EntryFails(i) ==
    \/ resolve_code(owned_funds[i], index_config) = None
    \/ upstream[i].raised
    \/ upstream[i].rows = 0

\* C9: get_all_fund_summaries returns one summary per configured entry, in
\* the entries' order, duplicates included; an entry that fails gets a status
\* other than '正常', the entries after it are still processed, and nothing
\* is raised out of the loop.
OneSummaryPerEntry ==
    /\ spc # "raised"
    /\ Len(fund_summaries) <= Len(owned_funds)
    /\ Len(upstream) = Len(fund_summaries)
    /\ spc = "done" => Len(fund_summaries) = Len(owned_funds)
    /\ \A i \in 1..Len(fund_summaries) :
          /\ fund_summaries[i].fund_code = owned_funds[i]
          /\ EntryFails(i) => fund_summaries[i].status # STATUS_OK

\* C9 witness: an unresolvable entry, then the same fund twice with the
\* upstream raising for the first and answering for the second
OneSummaryPerEntryWitness ==
    /\ spc = "done"
    /\ owned_funds = <<CODE_BAD, CODE_FUND, CODE_FUND>>
    /\ upstream[2].raised /\ ~upstream[3].raised
    /\ fund_summaries[1].status # STATUS_OK
    /\ fund_summaries[2].status # STATUS_OK
    /\ fund_summaries[3].status = STATUS_OK

----------------------------------------------------------------------------
(* Properties of RuleEngine under SpecRules *)

\* the alerts of the rules i..Len(rs) that do not raise, in order
RECURSIVE AlertsFrom(_, _, _)
AlertsFrom(rs, df, i) ==
    IF i > Len(rs) THEN <<>>
    ELSE (IF check(rs[i], df).raised THEN <<>> ELSE check(rs[i], df).alerts)
            \o AlertsFrom(rs, df, i + 1)

\* C10: on non-empty data check_all_rules calls every registered rule's check
\* once, in registration order; it returns the concatenation of their alerts
\* in that order; a rule that raises adds nothing and the rules after it are
\* still called.
RulesInOrder ==
    (rpc \in {"loop", "done"} /\ check_data # None /\ ~IsEmpty(check_data[1])) =>
        /\ applied = [i \in 1..Len(applied) |-> i]
        /\ Len(applied) <= Len(rules)
        /\ rpc = "done" =>
              /\ Len(applied) = Len(rules)
              /\ all_alerts = AlertsFrom(rules, check_data[1], 1)

\* C10 witness: three rules, the first raises, the two after it alert
RulesInOrderWitness ==
    /\ rpc = "done" /\ Len(rules) = 3 /\ check_data # None
    /\ rules[1].raises /\ ~rules[2].raises /\ ~rules[3].raises
    /\ rules[2].name # rules[3].name
    /\ Len(all_alerts) = 3
    /\ all_alerts[1].rule_name = rules[2].name
    /\ all_alerts[3].rule_name = rules[3].name

\* the rows of a returned frame carry pairwise different codes
DistinctCodes(v) ==
    v = None \/ \A i, j \in 1..Len(v[1].rows) : i # j => v[1].rows[i] # v[1].rows[j]

\* every row of a returned frame carries one of the codes
Among(v, codes) ==
    v = None \/ \A i \in 1..Len(v[1].rows) : \E k \in 1..Len(codes) : v[1].rows[i] = codes[k]

\* C28 as stated: in every result of batch_query funds_found <=
\* funds_requested, stocks_found <= stocks_requested, funds_requested +
\* stocks_requested <= total_requested and 0 <= success_rate <= 100.
FoundWithinRequested ==
    batch.phase = "done" =>
        LET sm == batch.summary
        IN /\ sm.funds_found <= sm.funds_requested
           /\ sm.stocks_found <= sm.stocks_requested
           /\ sm.funds_requested + sm.stocks_requested <= sm.total_requested
           /\ 0 <= sm.success_rate.num
           /\ sm.success_rate.num <= 100 * sm.success_rate.den

\* C28: in every result of batch_query funds_requested + stocks_requested <=
\* total_requested and success_rate >= 0; each found count is the number of
\* rows returned for the kind, all of them rows of a requested code; a found
\* count is at most its requested count when the returned rows carry
\* pairwise different codes, and success_rate <= 100 when that is so for both
\* kinds.  Upstream rows that repeat a requested code are all counted.
FoundRowsCounted ==
    batch.phase = "done" =>
        LET sm == batch.summary
        IN /\ sm.funds_requested + sm.stocks_requested <= sm.total_requested
           /\ 0 <= sm.success_rate.num /\ 0 < sm.success_rate.den
           /\ sm.funds_found = IF batch.funds = None THEN 0 ELSE Len(batch.funds[1].rows)
           /\ sm.stocks_found = IF batch.stocks = None THEN 0 ELSE Len(batch.stocks[1].rows)
           /\ Among(batch.funds, batch.fund_codes) /\ Among(batch.stocks, batch.stock_codes)
           /\ DistinctCodes(batch.funds) => sm.funds_found <= sm.funds_requested
           /\ DistinctCodes(batch.stocks) => sm.stocks_found <= sm.stocks_requested
           /\ (DistinctCodes(batch.funds) /\ DistinctCodes(batch.stocks)) =>
                sm.success_rate.num <= 100 * sm.success_rate.den

\* C28 witness: one fund requested, two upstream rows with its code, both
\* counted: funds_found = 2 and success_rate = 200
FoundRowsCountedWitness ==
    /\ batch.phase = "done"
    /\ batch.summary.total_requested = 1 /\ batch.summary.funds_requested = 1
    /\ batch.summary.funds_found = 2
    /\ batch.summary.success_rate = Frac(200, 1)

----------------------------------------------------------------------------
(* Properties of the two rules under SpecAlerts *)

\* check_all_rules has reached its loop over a non-empty table
Evaluating == rpc \in {"loop", "done"} /\ check_data # None /\ ~IsEmpty(check_data[1])

\* the layout of a table, and the cell of a row that holds a field
LayoutOf(df) == CHOOSE l \in Layouts : [i \in 1..Len(l) |-> l[i].name] = df.columns
CellOf(df, row, field) ==
    row[CHOOSE i \in 1..Len(LayoutOf(df)) : LayoutOf(df)[i].field = field]

\* the number a change text stands for, in hundredths; 0 where it has none
Percent(cell) ==
    IF cell = Some(<<"-", "5", ".", "0", "0", "%">>) THEN 0 - 500
    ELSE IF cell = Some(<<"1", ".", "2", "%">>) THEN 120
    ELSE IF cell = Some(<<"-", "3">>) THEN 0 - 300
    ELSE IF cell = Some(<<"-", "3", ".", "5", " ", "%">>) THEN 0 - 350
    ELSE 0

\* the number a net value text stands for, in hundredths, if any
Price(cell) ==
    IF cell = Some(<<"1", ".", "5">>) THEN Some(150)
    ELSE IF cell = Some(<<"2", ".", "0">>) THEN Some(200)
    ELSE IF cell = Some(<<"2", ".", "5">>) THEN Some(250)
    ELSE None

\* rule i of the engine cannot resolve one of the columns it requires
Unresolved(i) ==
    LET df == check_data[1]
    IN \/ get_fund_code_column(df) = 0
       \/ get_fund_name_column(df) = 0
       \/ rules[i].type = "percentage_drop" /\ get_change_rate_column(df) = 0
       \/ rules[i].type = "price_threshold" /\ get_net_value_column(df) = 0

RECURSIVE Concat(_)
Concat(seqs) == IF seqs = <<>> THEN <<>> ELSE Head(seqs) \o Concat(Tail(seqs))

\* C11: a PercentageDropRule or PriceThresholdRule that cannot resolve a
\* required column returns an empty alert list and does not raise; every
\* rule of the same check_all_rules call is still evaluated and what the call
\* returns is the alerts of all of them, in order.
UnresolvedColumn ==
    Evaluating =>
        /\ Len(outcomes) = Len(applied)
        /\ \A i \in 1..Len(outcomes) :
              /\ outcomes[i] = check(rules[i], check_data[1])
              /\ Unresolved(i) => (~outcomes[i].raised /\ outcomes[i].alerts = <<>>)
        /\ all_alerts = Concat([i \in 1..Len(outcomes) |-> outcomes[i].alerts])
        /\ rpc = "done" => Len(outcomes) = Len(rules)

\* C11 witness: the table has no net value column; the price rule returns
\* nothing and the drop rule after it returns its alert
UnresolvedColumnWitness ==
    /\ rpc = "done" /\ Len(rules) = 2
    /\ rules[1].type = "price_threshold" /\ rules[2].type = "percentage_drop"
    /\ check_data # None /\ Unresolved(1) /\ ~Unresolved(2)
    /\ outcomes[1].alerts = <<>> /\ ~outcomes[1].raised
    /\ outcomes[2].alerts # <<>> /\ all_alerts = outcomes[2].alerts

\* the rows of df in the scope of a drop rule that the rule must alert on
DropRows(rule, df) ==
    LET inscope(row) == \/ rule.fund_codes = <<>>
                        \/ \E k \in 1..Len(rule.fund_codes) :
                              CellOf(df, row, "code") = Some(rule.fund_codes[k])
        falls(row) == Percent(CellOf(df, row, "change")) <= 0 - rule.threshold
    IN SelectSeq(SelectSeq(df.rows, inscope), falls)

NoChange(cell) == cell \in {None, Some(<<"-", "-">>)}

\* alert k of rule i's outcome is for a row of the table without a change
AlertOnNoChange(i, k) ==
    LET df == check_data[1]
        a == outcomes[i].alerts[k]
    IN /\ k <= Len(DropRows(rules[i], df))
       /\ NoChange(CellOf(df, DropRows(rules[i], df)[k], "change"))
       /\ a.value = Some(0)

PriceRows(rule, df) ==
    LET match(row) == CellOf(df, row, "code") = Some(rule.fund_code)
    IN SelectSeq(df.rows, match)

\* C13: on a table whose columns resolve and that has a row for the rule's
\* fund code with a numeric net value v (the first such row when there are
\* several), PriceThresholdRule.check returns one alert, with value v, if
\* operator is below and v < threshold or operator is above and
\* v > threshold, and no alert otherwise; v = threshold never triggers.
PriceAlerts ==
    Evaluating =>
        \A i \in 1..Len(outcomes) :
            (rules[i].type = "price_threshold" /\ ~Unresolved(i)) =>
                LET df == check_data[1]
                    found == PriceRows(rules[i], df)
                    v == Price(CellOf(df, found[1], "value"))
                    got == outcomes[i].alerts
                IN (found # <<>> /\ v # None) =>
                      /\ ~outcomes[i].raised
                      /\ Len(got) <= 1
                      /\ Len(got) = 1 <=>
                            \/ rules[i].operator = "below" /\ v[1] < rules[i].threshold
                            \/ rules[i].operator = "above" /\ v[1] > rules[i].threshold
                      /\ v[1] = rules[i].threshold => got = <<>>
                      /\ Len(got) = 1 =>
                            /\ got[1].value = v
                            /\ got[1].fund_code = Some(rules[i].fund_code)
                            /\ got[1].rule_name = rules[i].name

\* C13 witness: a below rule and an above rule for X at threshold 2.0 on the
\* row X with net value 1.5: the first alerts, the second does not
PriceAlertsWitness ==
    /\ rpc = "done" /\ Len(rules) = 2
    /\ rules[1].type = "price_threshold" /\ rules[1].operator = "below"
    /\ rules[2].type = "price_threshold" /\ rules[2].operator = "above"
    /\ check_data # None /\ ~Unresolved(1) /\ Len(check_data[1].rows) = 1
    /\ Price(CellOf(check_data[1], check_data[1].rows[1], "value")) = Some(150)
    /\ Len(outcomes[1].alerts) = 1 /\ outcomes[1].alerts[1].value = Some(150)
    /\ outcomes[2].alerts = <<>>

\* C24 as stated: when no row carries a price rule's fund code, check returns
\* no alert and what it returns differs from what it returns for a row that
\* is present and does not meet the condition, an empty list without raising.
AbsentSymbolSurfaced ==
    Evaluating =>
        \A i \in 1..Len(outcomes) :
            (/\ rules[i].type = "price_threshold"
             /\ ~Unresolved(i)
             /\ PriceRows(rules[i], check_data[1]) = <<>>) =>
                /\ outcomes[i].alerts = <<>>
                /\ outcomes[i] # [raised |-> FALSE, alerts |-> <<>>]

----------------------------------------------------------------------------
(* Properties of resolve_code under SpecResolve *)

\* the trimmed identifier of the last call
Trimmed == strip(resolved[1].code)

\* the result of resolve_code for the alias entry v
IsAlias(info, v) ==
    /\ info # None /\ info[1].type = "index"
    /\ info[1].market = v.market /\ info[1].symbol = v.symbol
    /\ info[1].alias_name = Some(v.name)

\* two identifiers are equal up to letter case
SameUpToCase(a, b) ==
    /\ Len(a) = Len(b)
    /\ \A i \in 1..Len(a) :
          \/ a[i] = b[i]
          \/ \E n \in 1..26 : {a[i], b[i]} = {LOWER[n], UPPER[n]}

\* C14 as stated: when the trimmed identifier equals a key of the alias table
\* exactly or up to letter case, the result is the index that alias declares.
AliasAnyCase ==
    (resolved # None /\ \E k \in DOMAIN resolved[1].used : SameUpToCase(k, Trimmed)) =>
        \E k \in DOMAIN resolved[1].used :
            SameUpToCase(k, Trimmed) /\ IsAlias(resolved[1].info, resolved[1].used[k])

\* C14: when the trimmed identifier is a key of the alias table the result is
\* the index that entry declares (its market, symbol and name); otherwise,
\* when the identifier in upper case is a key, the index that entry declares;
\* this holds for identifiers of digits and of the sh form as well.  When
\* neither is a key the result comes from the later rules and has no alias.
AliasPrecedence ==
    (resolved # None /\ Trimmed # <<>>) =>
        LET r == resolved[1]
            up == [i \in 1..Len(Trimmed) |->
                     IF \E n \in 1..26 : LOWER[n] = Trimmed[i]
                     THEN UPPER[CHOOSE n \in 1..26 : LOWER[n] = Trimmed[i]] ELSE Trimmed[i]]
        IN /\ Trimmed \in DOMAIN r.used => IsAlias(r.info, r.used[Trimmed])
           /\ (Trimmed \notin DOMAIN r.used /\ up \in DOMAIN r.used)
                => IsAlias(r.info, r.used[up])
           /\ (Trimmed \notin DOMAIN r.used /\ up \notin DOMAIN r.used)
                => (r.info = None \/ r.info[1].alias_name = None)

\* C14 witness: the alias '000300', all digits, resolves to the cn index the
\* alias declares and not to a fund
AliasPrecedenceWitness ==
    /\ resolved # None
    /\ resolved[1].code = <<"0", "0", "0", "3", "0", "0">>
    /\ resolved[1].code \in DOMAIN resolved[1].used
    /\ resolved[1].info # None /\ resolved[1].info[1].type = "index"
    /\ resolved[1].info[1].market = "cn"
    /\ resolved[1].info[1].symbol = <<"s", "h", "0", "0", "0", "3", "0", "0">>

\* the last call's identifier matches no alias, is not all digits and is not
\* of the sh/sz + 6 digits form
NoEarlierRule ==
    /\ resolved # None
    /\ \A k \in DOMAIN resolved[1].used : ~SameUpToCase(k, Trimmed)
    /\ ~(Trimmed # <<>> /\ \A i \in 1..Len(Trimmed) : Trimmed[i] \in DIGITS)
    /\ ~(/\ Len(Trimmed) = 8
         /\ Trimmed[1] = "s" /\ Trimmed[2] \in {"h", "z"}
         /\ \A i \in 3..8 : Trimmed[i] \in DIGITS)

IsGlobal(info, symbol) ==
    /\ info # None /\ info[1].type = "index" /\ info[1].market = "global"
    /\ info[1].symbol = symbol /\ info[1].alias_name = None

ResolveDeterministic ==
    /\ (earlier # None /\ resolved # None /\ earlier[1].code = resolved[1].code)
          => (earlier[1].info = resolved[1].info /\ earlier[1].valid = resolved[1].valid)
    /\ (earlier # None /\ resolved # None /\ strip(earlier[1].code) # <<>>)
          => (config_loaded /\ index_config = earlier[1].used
              /\ (strip(resolved[1].code) # <<>> => resolved[1].used = earlier[1].used))

\* C16 witness: 'HSI' resolved through its alias twice, the second time after
\* the file lost the alias
ResolveDeterministicWitness ==
    /\ earlier # None /\ resolved # None
    /\ earlier[1].code = <<"H", "S", "I">> /\ resolved[1].code = <<"H", "S", "I">>
    /\ index_file = <<>>
    /\ resolved[1].info # None /\ resolved[1].info[1].alias_name = Some("HangSeng")
    /\ earlier[1].info = resolved[1].info

----------------------------------------------------------------------------
(* Properties of the analysis functions under SpecAnalysis *)

\* the sign of the number a change cell stands for; 0 where it has none.  A
\* text with a percent sign is no number for _analyze_stocks.
SignOf(fn, cell) ==
    IF cell = Some(<<"-", "5", ".", "0", "0", "%">>) THEN (IF fn = "stocks" THEN 0 ELSE 0 - 1)
    ELSE IF cell = Some(<<"1", ".", "2", "%">>) THEN (IF fn = "stocks" THEN 0 ELSE 1)
    ELSE IF cell = Some(<<"-", "3">>) THEN 0 - 1
    ELSE 0

\* the table has a column the function takes for the change
HasChange(fn, df) ==
    \E i \in 1..Len(df.columns) :
        \/ df.columns[i] = <<"zhang", "die", "fu">>
        \/ fn # "stocks" /\ df.columns[i] = <<"ri", "zeng", "chang", "lv">>

\* C17 as stated: in every analysis result rising + falling + flat is the
\* number of rows, the reported count.
CountsCoverRows ==
    analysis # None =>
        /\ analysis[1].count = Len(table[1].rows)
        /\ analysis[1].rising + analysis[1].falling + analysis[1].flat = analysis[1].count

\* C17: when the table has a change column the function recognises, each row
\* is counted once, as rising, falling or flat by the sign of its parsed
\* change, a missing or unparsable change counting as flat, so that the three
\* counters add up to the number of rows; when it has none, the three
\* counters are 0 whatever the number of rows.
CountsBySign ==
    analysis # None =>
        LET a == analysis[1]
            df == table[1]
            signs(sg) == Cardinality({i \in 1..Len(df.rows) : SignOf(a.by, df.rows[i][2]) = sg})
        IN /\ a.count = Len(df.rows)
           /\ HasChange(a.by, df) =>
                /\ a.rising = signs(1) /\ a.falling = signs(0 - 1) /\ a.flat = signs(0)
                /\ a.rising + a.falling + a.flat = a.count
           /\ ~HasChange(a.by, df) => (a.rising = 0 /\ a.falling = 0 /\ a.flat = 0)

\* C17 witness: a fund table with a falling row and an unparsable one
CountsBySignWitness ==
    /\ analysis # None /\ analysis[1].by = "funds"
    /\ table[1].rows = <<<<Some("000001"), Some(<<"-", "5", ".", "0", "0", "%">>)>>,
                         <<Some("000001"), Some(<<"-", "-">>)>>>>
    /\ analysis[1].count = 2 /\ analysis[1].falling = 1 /\ analysis[1].flat = 1

----------------------------------------------------------------------------
(* Properties of the shared fetcher under SpecThreads *)

\* C18 as stated: at most one upstream fetch per cache key is in flight at
\* any time; no two threads are inside the retry loop for the same key.
SingleFlight ==
    \A t1, t2 \in Threads :
        (/\ t1 # t2
         /\ callers[t1].tpc = "retry"
         /\ callers[t2].tpc = "retry") => callers[t1].kind # callers[t2].kind

\* what the cache holds under a key: payload and timestamp, None when absent
Entry(c, ct, key) ==
    [payload |-> IF key \in DOMAIN c THEN Some(c[key]) ELSE None,
     time    |-> IF key \in DOMAIN ct THEN Some(ct[key]) ELSE None]

\* thread t is at a write of its successful fetch: the upstream call that
\* brought data, or the timestamp assignment that follows it
Writing(t) ==
    \/ callers[t].tpc = "retry" /\ callers'[t].tpc = "stamp"
    \/ callers[t].tpc = "stamp" /\ callers'[t].tpc = "idle"

\* C20: a step changes the payload or the timestamp of a cache key only when
\* it is a write of a successful fetch for that very key; a step of a fetch
\* that fails (an attempt that raises or returns empty, the last one included)
\* changes no entry, and a step of a fetch leaves the validity of every key
\* it does not write as it was.
CacheFrame ==
    [][\A key \in {FUND_KEY, STOCK_KEY} :
          LET written == \E t \in Threads : Writing(t) /\ CacheKey(callers[t].kind) = key
          IN /\ Entry(_cache', _cache_time', key) # Entry(_cache, _cache_time, key)
                    => written
             /\ (callers' # callers /\ ~written)
                    => (_is_cache_valid(_cache_time', now', key)
                            <=> _is_cache_valid(_cache_time, now, key))]_vars

\* C20 witness: the stock entry was written after the fund entry, which kept
\* its older timestamp, and a fetch has failed its first attempt
CacheFrameWitness ==
    /\ FUND_KEY \in DOMAIN _cache_time /\ STOCK_KEY \in DOMAIN _cache_time
    /\ _cache_time[FUND_KEY] < _cache_time[STOCK_KEY]
    /\ \E t \in Threads : callers[t].tpc = "retry" /\ callers[t].attempt > 0

----------------------------------------------------------------------------
(* Properties of get_batch_changes under SpecChanges *)

\* C19 as stated: one get_batch_changes makes at most one upstream bulk call
\* for the stock kind, whatever the number of stock entries.
OneBulkStockCall ==
    changes # None => changes[1].stock_calls <= 1

----------------------------------------------------------------------------
(* Properties of the retry implementations under SpecRetry *)

\* the upstream call raised
Raising(e) == e \in {"ConnectionError", "KeyError"}

\* C21 as stated: when the first upstream call of get_global_index_data
\* raises and the attempt budget allows another attempt, the upstream is
\* called again before the call returns.
RetriedOnError ==
    (/\ retry # None
     /\ retry[1].func = "get_global_index_data"
     /\ retry[1].status = "returned"
     /\ Raising(retry[1].events[1])
     /\ retry[1].max_retries >= 2) => Len(retry[1].events) >= 2

\* C22: a call through the decorator makes at most max_retries calls of the
\* wrapped function; every call before the last one raised; when it returns,
\* the value is the result of the last call, which did not raise; when it
\* raises after at least one call, max_retries calls were made, all raised,
\* and the exception is the one the last call raised.
WrapperBound ==
    (retry # None /\ retry[1].impl = "retry_api_call") =>
        LET r == retry[1]
            n == Len(r.events)
            out(i) == Call(r.func, r.events[i], i)
        IN /\ n <= r.max_retries
           /\ \A i \in 1..(n - 1) : out(i).kind = "error"
           /\ r.status = "running" =>
                (/\ n < r.max_retries \/ r.max_retries = 0
                 /\ \A i \in 1..n : out(i).kind = "error")
           /\ r.status = "returned" => (n >= 1 /\ out(n).kind = "result" /\ r.value = out(n))
           /\ (r.status = "raised" /\ n >= 1) =>
                (n = r.max_retries /\ out(n).kind = "error" /\ r.value = out(n))
           /\ (r.status = "raised" /\ n = 0) => r.max_retries = 0

\* C22 witness: three calls raised three errors and the last one came out
WrapperBoundWitness ==
    /\ retry # None /\ retry[1].impl = "retry_api_call" /\ retry[1].func = "func"
    /\ retry[1].status = "raised"
    /\ retry[1].events = <<"KeyError", "KeyError", "ConnectionError">>
    /\ retry[1].value = [kind |-> "error", what |-> "ConnectionError", call |-> 3]

\* the number of attempts a retrying call may make
Budget(r) == IF r.impl = "retry_api_call" THEN r.max_retries ELSE r.max_retries + 1

\* C23 as stated: every sleep is taken while at least one attempt remains,
\* and in retry_api_call the sleep after the k-th failed attempt lasts
\* delay * backoff_factor^(k-1).
SleepsBetweenAttempts ==
    retry # None =>
        \A i \in 1..Len(retry[1].slept) :
            LET sl == retry[1].slept[i]
            IN /\ sl.after < Budget(retry[1])
               /\ retry[1].impl = "retry_api_call" =>
                    sl.wait = retry[1].delay * Pow(retry[1].backoff_factor, sl.after - 1)

\* C23: in retry_api_call there is one sleep after each failed attempt but
\* the last of the budget, of delay * backoff_factor^(k-1) after the k-th;
\* in _retry_api_call there is one backoff sleep before each attempt after
\* the first, and one more sleep right after every attempt that raised a
\* connection-level error, the final attempt included.
SleepsAsTaken ==
    retry # None =>
        LET r == retry[1]
            n == Len(r.events)
            failed == {k \in 1..n : Call(r.func, r.events[k], k).kind = "error"}
            conn == {k \in 1..n : r.events[k] = "ConnectionError"}
            at(why) == {i \in 1..Len(r.slept) : r.slept[i].why = why}
        IN IF r.impl = "retry_api_call"
           THEN /\ Len(r.slept) = Cardinality({k \in failed : k < r.max_retries})
                /\ \A i \in 1..Len(r.slept) :
                     /\ r.slept[i].after = i /\ i \in failed /\ i < r.max_retries
                     /\ r.slept[i].wait = r.delay * Pow(r.backoff_factor, i - 1)
           ELSE /\ {r.slept[i].after : i \in at("backoff")} = 1..(n - 1)
                /\ Cardinality(at("backoff")) = IF n = 0 THEN 0 ELSE n - 1
                /\ {r.slept[i].after : i \in at("connection")} = conn
                /\ Cardinality(at("connection")) = Cardinality(conn)
                /\ \A i \in at("backoff") : r.slept[i].after < Budget(r)

\* C23 witness: the last attempt of _retry_api_call raised a connection-level
\* error and the call slept once more before it returned None
SleepsAsTakenWitness ==
    /\ retry # None /\ retry[1].impl = "_retry_api_call" /\ retry[1].status = "returned"
    /\ retry[1].max_retries = 1
    /\ retry[1].events = <<"empty", "ConnectionError">>
    /\ retry[1].slept = <<[after |-> 1, why |-> "backoff", wait |-> 0],
                          [after |-> 2, why |-> "connection", wait |-> 0]>>

----------------------------------------------------------------------------
(* Properties of FieldHelper.find_column under SpecFind *)

\* the columns of the table, in order, that contain pattern pat
Containing(pat) ==
    LET cols == table[1].columns
        has(c) == StrContains(pat, c)
    IN SelectSeq(cols, has)

\* C25 as stated: find_column returns the first column, in the table's column
\* order, whose name contains any of the patterns, and no column when there
\* is none or the table is empty.
FirstColumnInOrder ==
    find_result # None =>
        LET cols == table[1].columns
            pats == find_result[1].patterns
            any(c) == \E k \in 1..Len(pats) : StrContains(pats[k], c)
            hits == SelectSeq(cols, any)
        IN find_result[1].column =
              IF IsEmpty(table[1]) \/ hits = <<>> THEN None ELSE Some(hits[1])

\* C25: find_column goes through the patterns in their order and answers for
\* the first pattern that some column name contains: the column named exactly
\* like the pattern if there is one, else the first column in column order
\* that contains it; it returns no column when no pattern is contained in any
\* column name or the table is empty.
FirstPatternFirst ==
    find_result # None =>
        LET pats == find_result[1].patterns
            hits == {k \in 1..Len(pats) : Containing(pats[k]) # <<>>}
            k1 == CHOOSE k \in hits : \A j \in hits : k <= j
            exact(c) == c = pats[k1]
        IN find_result[1].column =
              IF IsEmpty(table[1]) \/ hits = {} THEN None
              ELSE IF SelectSeq(table[1].columns, exact) # <<>> THEN Some(pats[k1])
              ELSE Some(Containing(pats[k1])[1])

\* C25 witness: with columns '代码', '基金代码' and patterns '基金代码', '代码'
\* the second column is returned, the first pattern deciding
FirstPatternFirstWitness ==
    /\ find_result # None /\ ~IsEmpty(table[1])
    /\ table[1].columns = <<COL_CODE, COL_FUND_CODE>>
    /\ find_result[1].patterns = <<COL_FUND_CODE, COL_CODE>>
    /\ find_result[1].column = Some(COL_FUND_CODE)

----------------------------------------------------------------------------
(* Properties of the cleaning functions under SpecClean *)

\* C26 as stated: after cleaning every row has a code and no two rows have
\* the same code.
CleanedUnique ==
    analysis # None =>
        LET rows == analysis[1].df.rows
        IN /\ \A i \in 1..Len(rows) : rows[i] # NaN
           /\ \A i, j \in 1..Len(rows) : i # j => rows[i] # rows[j]

\* C26: when the table has the code column the function looks at ('基金代码'
\* for _clean_fund_data and _clean_data, '代码' for _clean_stock_data), the
\* result holds exactly the rows whose code is present and 6 characters
\* long, in their order, repeated codes included; otherwise the table comes
\* back as it is.
CleanedCodes ==
    analysis # None =>
        LET fn == analysis[1].by
            col == IF fn = "_clean_stock_data" THEN COL_CODE ELSE COL_FUND_CODE
            keeps(c) == c \in {"000001", "270042"}
        IN IF table[1].columns = <<col>>
           THEN /\ analysis[1].df.columns = table[1].columns
                /\ analysis[1].df.rows = SelectSeq(table[1].rows, keeps)
           ELSE analysis[1].df = table[1]

\* C26 witness: two rows with the same code are both still there
CleanedCodesWitness ==
    /\ analysis # None /\ analysis[1].by = "_clean_fund_data"
    /\ table[1] = DataFrame(<<COL_FUND_CODE>>, <<"000001", "000001">>)
    /\ analysis[1].df.rows = <<"000001", "000001">>

----------------------------------------------------------------------------
(* Properties of load_funds_config under SpecConfig *)

\* C29: every code in the watchlist returned by load_funds_config is
\* resolvable (is_valid_code is true for it), for the JSON and the TXT source
\* and for 'code' and 'code|name' entries; an entry whose code is
\* unresolvable is reported and not placed in the watchlist.
WatchlistValid ==
    (funds_config # None /\ funds_config[1].loaded) =>
        \A k \in 1..Len(owned_funds) : is_valid_code(owned_funds[k], index_file)

====
